---- MODULE Spec2Model ----
(***************************************************************************)
(* Verification model of the alignment and scoring core of the             *)
(* pronunciation-evaluation server:                                         *)
(*   services/word_matching.py       (word mapper)                          *)
(*   services/pronunciation_service.py (phoneme scorer / evaluation)        *)
(*   services/pronunciation_assessment.py (comprehensive result,           *)
(*                                     phoneme alignment, assessment)      *)
(*   services/llm_service.py, services/whisper_service.py, main.py         *)
(*   server.py, my_whisper_app.py    (the /evaluate upload handler)        *)
(*                                                                         *)
(* Words and phoneme strings are sequences of one-character strings, so     *)
(* that edit distances and whitespace stripping are computed, not assumed.  *)
(* Python lists and numpy arrays are 0-based; the model keeps 0-based       *)
(* indices in every value the code exposes (mapped indices, path steps)     *)
(* and stores lists as 1-based TLA+ sequences (element k of the code is     *)
(* element k+1 of the sequence).                                            *)
(***************************************************************************)
EXTENDS Integers, Sequences, FiniteSets, TLC

\* ------------------------------------------------------------------------
\* Bounds of the model and input universes
\* ------------------------------------------------------------------------
MaxEst == 3
MaxRef == 3

\* the words the mapper is exercised on: two one-letter words and a longer one
Vocabulary == { <<"a">>, <<"b">>, <<"a", "b", "b">> }

RECURSIVE ListsUpTo(_, _)
ListsUpTo(S, n) ==
    IF n = 0 THEN { <<>> }
    ELSE LET shorter == ListsUpTo(S, n - 1)
         IN  shorter \cup { Append(l, x) : l \in { s \in shorter : Len(s) = n - 1 }, x \in S }

\* ------------------------------------------------------------------------
\* Small helpers
\* ------------------------------------------------------------------------
Min2(a, b) == IF a <= b THEN a ELSE b
Max2(a, b) == IF a >= b THEN a ELSE b

SetMin(S) == CHOOSE x \in S : \A y \in S : x <= y

Range(s) == { s[k] : k \in DOMAIN s }

\* ------------------------------------------------------------------------
\* word_metrics.edit_distance_python (Levenshtein distance)
\* ------------------------------------------------------------------------
\*   the distance table is filled row by row; row i holds the distances
\*   between the first i symbols of a and every prefix of b
RECURSIVE edit_distance_row(_, _, _, _, _)
edit_distance_row(a, b, i, prev, cur) ==
    IF Len(cur) = Len(b) + 1 THEN cur
    ELSE LET j == Len(cur)
             sub == IF a[i] = b[j] THEN 0 ELSE 1
         IN  edit_distance_row(a, b, i, prev,
                 Append(cur, Min2(Min2(prev[j + 1] + 1, cur[j] + 1), prev[j] + sub)))

RECURSIVE edit_distance_rows(_, _, _, _)
edit_distance_rows(a, b, i, prev) ==
    IF i > Len(a) THEN prev[Len(b) + 1]
    ELSE edit_distance_rows(a, b, i + 1, edit_distance_row(a, b, i, prev, << i >>))

edit_distance_python(a, b) ==
    edit_distance_rows(a, b, 1, [ j \in 1 .. (Len(b) + 1) |-> j - 1 ])

\* ------------------------------------------------------------------------
\* word_matching.get_word_distance_matrix
\*   rows 0..len(words_estimated)-1 : edit distance candidate/reference
\*   row  len(words_estimated)      : the blank row, len(reference word)
\* ------------------------------------------------------------------------
offset_blank == 1

get_word_distance_matrix(words_estimated, words_real) ==
    LET number_of_real_words == Len(words_real)
        number_of_estimated_words == Len(words_estimated)
    IN  [ idx_estimated \in 0 .. (number_of_estimated_words + offset_blank - 1) |->
            [ idx_real \in 0 .. (number_of_real_words - 1) |->
                IF idx_estimated < number_of_estimated_words
                THEN edit_distance_python(words_estimated[idx_estimated + 1],
                                          words_real[idx_real + 1])
                ELSE Len(words_real[idx_real + 1]) ] ]

\* ------------------------------------------------------------------------
\* dtwalign.dtw_from_distance_matrix with its defaults (no window, step
\* pattern symmetric2, closed begin and end), as called by the mapper.
\*   StepPattern : the three steps (di, dj, weight) in the library's order
\*   CumFill     : cumulative cost matrix, row-major, D[i*m + j + 1]
\*   Backtrack   : from the last cell, repeatedly move to the predecessor
\*                 cell with the smallest cumulative cost (first in pattern
\*                 order on ties), back to (0,0)
\* ------------------------------------------------------------------------
StepPattern == << <<-1, 0, 1>>, <<-1, -1, 2>>, <<0, -1, 1>> >>

ValidSteps(i, j) ==
    { p \in DOMAIN StepPattern : i + StepPattern[p][1] >= 0 /\ j + StepPattern[p][2] >= 0 }

RECURSIVE CumFill(_, _, _, _, _)
CumFill(X, n, m, k, D) ==
    IF k = n * m THEN D
    ELSE LET i == k \div m
             j == k % m
             x == X[i][j]
             costs == { D[(i + StepPattern[p][1]) * m + (j + StepPattern[p][2]) + 1]
                          + StepPattern[p][3] * x : p \in ValidSteps(i, j) }
             v == IF k = 0 THEN x ELSE SetMin(costs)
         IN  CumFill(X, n, m, k + 1, Append(D, v))

RECURSIVE Backtrack(_, _, _, _)
Backtrack(D, m, i, j) ==
    IF i = 0 /\ j = 0 THEN << <<0, 0>> >>
    ELSE LET val(p) == D[(i + StepPattern[p][1]) * m + (j + StepPattern[p][2]) + 1]
             best == CHOOSE p \in ValidSteps(i, j) :
                        \A q \in ValidSteps(i, j) :
                            val(p) < val(q) \/ (val(p) = val(q) /\ p <= q)
         IN  Append(Backtrack(D, m, i + StepPattern[best][1], j + StepPattern[best][2]),
                    <<i, j>>)

\* the warping path: a sequence of steps <<row, column>>
dtw_from_distance_matrix(X, n, m) ==
    Backtrack(CumFill(X, n, m, 0, <<>>), m, n - 1, m - 1)

\* ------------------------------------------------------------------------
\* word_matching.get_resulting_string
\*   mapped_indices is the first column of the path without its last step;
\*   the reference word word_idx is looked up by VALUE in that column and
\*   the POSITIONS where it occurs are used as candidate indices.
\* ------------------------------------------------------------------------
WORD_NOT_FOUND_TOKEN == << "-" >>

\* a variant that also collects the positions holding a smaller value
position_of_real_word_indices_upto(mapped_indices, word_idx) ==
    { k \in 0 .. (Len(mapped_indices) - 1) : mapped_indices[k + 1] <= word_idx }

position_of_real_word_indices(mapped_indices, word_idx) ==
    { k \in 0 .. (Len(mapped_indices) - 1) : mapped_indices[k + 1] = word_idx }

\* a variant without the range test of the single position: a position on
\* the blank row is returned with the not-found token
resulting_entry_unguarded(mapped_indices, words_estimated, words_real, word_idx) ==
    LET positions == position_of_real_word_indices(mapped_indices, word_idx)
    IN  IF Cardinality(positions) = 0
        THEN << WORD_NOT_FOUND_TOKEN, -1 >>
        ELSE IF Cardinality(positions) = 1
        THEN LET idx0 == CHOOSE k \in positions : TRUE
             IN  IF idx0 >= Len(words_estimated)
                 THEN << WORD_NOT_FOUND_TOKEN, idx0 >>
                 ELSE << words_estimated[idx0 + 1], idx0 >>
        ELSE LET usable == { k \in positions : k < Len(words_estimated) }
                 error_word(k) == edit_distance_python(words_estimated[k + 1],
                                                       words_real[word_idx + 1])
             IN  IF usable = {}
                 THEN << <<>>, -1 >>
                 ELSE LET best_possible_idx ==
                            CHOOSE k \in usable :
                                \A l \in usable :
                                    error_word(k) < error_word(l)
                                    \/ (error_word(k) = error_word(l) /\ k <= l)
                      IN  << words_estimated[best_possible_idx + 1], best_possible_idx >>

\* one entry <<mapped word, mapped index>> for the reference word word_idx
resulting_entry(mapped_indices, words_estimated, words_real, word_idx) ==
    LET positions == position_of_real_word_indices(mapped_indices, word_idx)
    IN  IF Cardinality(positions) = 0
        THEN << WORD_NOT_FOUND_TOKEN, -1 >>
        ELSE IF Cardinality(positions) = 1
        THEN LET idx0 == CHOOSE k \in positions : TRUE
             IN  IF idx0 < 0 \/ idx0 >= Len(words_estimated)
                 THEN << WORD_NOT_FOUND_TOKEN, -1 >>
                 ELSE << words_estimated[idx0 + 1], idx0 >>
        ELSE \* several positions: lowest edit distance, first one on ties;
             \* positions at or above len(words_estimated) are skipped and
             \* the initial values ('' and -1) stay when all are skipped
             LET usable == { k \in positions : k < Len(words_estimated) }
                 error_word(k) == edit_distance_python(words_estimated[k + 1],
                                                       words_real[word_idx + 1])
             IN  IF usable = {}
                 THEN << <<>>, -1 >>
                 ELSE LET best_possible_idx ==
                            CHOOSE k \in usable :
                                \A l \in usable :
                                    error_word(k) < error_word(l)
                                    \/ (error_word(k) = error_word(l) /\ k <= l)
                      IN  << words_estimated[best_possible_idx + 1], best_possible_idx >>

get_resulting_string(mapped_indices, words_estimated, words_real) ==
    LET entries == [ w \in 1 .. Len(words_real) |->
                        resulting_entry(mapped_indices, words_estimated, words_real, w - 1) ]
    IN  << [ w \in 1 .. Len(words_real) |-> entries[w][1] ],
           [ w \in 1 .. Len(words_real) |-> entries[w][2] ] >>

\* ------------------------------------------------------------------------
\* word_matching.get_best_mapped_words_dtw
\*   DtwPath        : dtw_from_distance_matrix(word_distance_matrix).path
\*   MappedIndices  : .path[:-1, 0]
\*   an empty reference list gives a matrix without columns, on which the
\*   warping search has no last cell to start from (the call raises)
\* ------------------------------------------------------------------------
DtwRaises(words_estimated, words_real) == Len(words_real) = 0

DtwPath(words_estimated, words_real) ==
    dtw_from_distance_matrix(get_word_distance_matrix(words_estimated, words_real),
                             Len(words_estimated) + offset_blank, Len(words_real))

\* a variant that reads the first column from the end of the path
MappedIndices_reversed(path) ==
    [ k \in 1 .. (Len(path) - 1) |-> path[Len(path) - k][1] ]

MappedIndices(path) == [ k \in 1 .. (Len(path) - 1) |-> path[k][1] ]

get_best_mapped_words_dtw(words_estimated, words_real) ==
    get_resulting_string(MappedIndices(DtwPath(words_estimated, words_real)),
                         words_estimated, words_real)

\* ------------------------------------------------------------------------
\* pronunciation_service.evaluate_pronunciation_phonemes_aligned
\*
\* Scores are floats in the code.  The model keeps them as integers:
\*   *_e4       : the unrounded score in units of 1/10000 point
\*   round(x,1) : Round1, the score in tenths of a point (100.0 is 1000)
\* Times are in milliseconds.
\* ------------------------------------------------------------------------
MaxRefPh == 2
MaxLearnPh == 2

\* PhonemeData values the evaluation is exercised on: a word with a
\* two-phoneme string (with its separating space), a word with one phoneme,
\* and a word whose phoneme string is empty
PhonemeItems ==
    { [word |-> <<"a">>, phoneme |-> <<"k", " ", "t">>],
      [word |-> <<"b">>, phoneme |-> <<"k">>],
      [word |-> <<"b">>, phoneme |-> <<>>] }

\* entries of learner_words_with_ts: without start/end, or with a duration
\* of 230 ms or of 600 ms
TimestampItems ==
    { [word |-> <<"w">>],
      [word |-> <<"w">>, start |-> 0, end |-> 230],
      [word |-> <<"w">>, start |-> 0, end |-> 600] }

\* str.replace(" ", "")
strip_spaces(phoneme) == SelectSeq(phoneme, LAMBDA c : c # " ")

\* round(x, 1): the value in tenths, an exact half going to the even tenth
Round1(x_e4) ==
    LET q == x_e4 \div 1000
        r == x_e4 % 1000
    IN  IF r > 500 \/ (r = 500 /\ q % 2 = 1) THEN q + 1 ELSE q

\* math.exp(-0.5 * ((ratio - 1) / sigma) ** 2) * 100 with
\* ratio = learner_duration / (0.08 * ref_phoneme_count + 0.15), sigma = 0.4.
\* exp has no integer definition: the Gaussian is tabulated, in 1/10000
\* point, for the durations of TimestampItems and the phoneme counts of
\* PhonemeItems (values of the formula above, rounded to 1/10000).
gaussian_rhythm_e4(learner_duration, ref_phoneme_count) ==
    CASE learner_duration = 230 /\ ref_phoneme_count = 0 -> 411112
      [] learner_duration = 230 /\ ref_phoneme_count = 1 -> 1000000
      [] learner_duration = 230 /\ ref_phoneme_count = 2 -> 812112
      [] learner_duration = 600 /\ ref_phoneme_count = 0 -> 0
      [] learner_duration = 600 /\ ref_phoneme_count = 1 -> 307
      [] learner_duration = 600 /\ ref_phoneme_count = 2 -> 64908

\* a variant without the max(0.0, ...) floor
pronunciation_score_e4_unfloored(ref_seq, dist) ==
    ((Len(ref_seq) - dist) * 1000000) \div Max2(Len(ref_seq), 1)

\* a variant that divides by the length of the longer string a distance
\* of dist allows, len(ref_seq) + dist
pronunciation_score_e4_longer(ref_seq, dist) ==
    Max2(0, ((Len(ref_seq) - dist) * 1000000) \div Max2(Len(ref_seq) + dist, 1))

\* max(0.0, (len(ref_seq) - dist) / max(len(ref_seq), 1)) * 100
pronunciation_score_e4(ref_seq, dist) ==
    Max2(0, ((Len(ref_seq) - dist) * 1000000) \div Max2(Len(ref_seq), 1))

\* the rhythm score of a mapped word: 0.0 unless the candidate's index has
\* an entry in learner_words_with_ts that carries both start and end
rhythm_score_e4(ref_seq, learner_word_index, ts) ==
    IF learner_word_index < Len(ts)
       /\ "start" \in DOMAIN ts[learner_word_index + 1]
       /\ "end" \in DOMAIN ts[learner_word_index + 1]
    THEN gaussian_rhythm_e4(ts[learner_word_index + 1].end - ts[learner_word_index + 1].start,
                            Len(ref_seq))
    ELSE 0

\* final_accuracy = pronunciation_score * 0.7 + rhythm_score * 0.3
final_accuracy_e4(pronunciation_e4, rhythm_e4) ==
    (pronunciation_e4 * 7 + rhythm_e4 * 3) \div 10

\* one iteration of the scoring loop, for reference word i (0-based)
score_word_aligned(ref, mapped_index, learner, ts) ==
    LET ref_seq == strip_spaces(ref.phoneme)
        mapped == mapped_index >= 0
        phon_est == IF mapped THEN strip_spaces(learner[mapped_index + 1].phoneme) ELSE <<>>
        dist == IF mapped THEN edit_distance_python(ref_seq, phon_est) ELSE 0
        pron == IF mapped THEN pronunciation_score_e4(ref_seq, dist) ELSE 0
        rhythm == IF mapped THEN rhythm_score_e4(ref_seq, mapped_index, ts) ELSE 0
    IN  [ word |-> ref.word,
          accuracy_percentage |-> Round1(final_accuracy_e4(pron, rhythm)),
          pronunciation_score |-> Round1(pron),
          rhythm_score |-> Round1(rhythm),
          dist |-> dist,
          error |-> IF mapped /\ dist > 0
                    THEN << [ type |-> "pronunciation",
                              expected_phoneme |-> ref.phoneme,
                              actual_phoneme |-> IF Len(phon_est) > 0
                                                 THEN learner[mapped_index + 1].phoneme
                                                 ELSE <<>> ] >>
                    ELSE <<>> ]

RECURSIVE Flatten(_)
Flatten(ss) == IF Len(ss) = 0 THEN <<>> ELSE Head(ss) \o Flatten(Tail(ss))

RECURSIVE SumSeq(_)
SumSeq(xs) == IF Len(xs) = 0 THEN 0 ELSE Head(xs) + SumSeq(Tail(xs))

\* jiwer.wer raises ValueError when the reference has no word
wer_raises(reference) ==
    \A k \in DOMAIN reference : Len(strip_spaces(reference[k].phoneme)) = 0

\* ------------------------------------------------------------------------
\* pronunciation_assessment: scoring helpers and _build_comprehensive_result
\*   words are sequences of characters, times are in ms (multiples of 10,
\*   so that round(t, 2) keeps them), confidence is in hundredths, scores
\*   are carried in 1/10000 point and reported in tenths
\* ------------------------------------------------------------------------
MaxBuildRef == 2
MaxBuildWords == 2

StripChars == { ".", ",", "!", "?", ";", ":" }

RECURSIVE strip_left(_)
strip_left(w) ==
    IF Len(w) > 0 /\ Head(w) \in StripChars THEN strip_left(Tail(w)) ELSE w

RECURSIVE strip_right(_)
strip_right(w) ==
    IF Len(w) > 0 /\ w[Len(w)] \in StripChars
    THEN strip_right(SubSeq(w, 1, Len(w) - 1)) ELSE w

upper_char(c) ==
    CASE c = "a" -> "A"
      [] c = "b" -> "B"
      [] OTHER -> c

\* word.strip('.,!?;:').upper()
word_clean_of(w) ==
    LET s == strip_right(strip_left(w)) IN [ k \in DOMAIN s |-> upper_char(s[k]) ]

\* the blank-separated tokens of reference_text, as the caller wrote them
ReferenceTokens == { << "a" >>, << "b", "." >> }

\* entries of words_with_times as get_word_timestamps builds them (words
\* stripped of blanks and upper-cased, punctuation kept)
WordInfoItems ==
    { [ word |-> << "A" >>,      start |-> 0,    end |-> 350,  confidence |-> 90 ],
      [ word |-> << "B", "." >>, start |-> 400,  end |-> 900,  confidence |-> 100 ],
      [ word |-> << "B" >>,      start |-> 2000, end |-> 3500, confidence |-> 0 ],
      [ word |-> << "A", "!" >>, start |-> 350,  end |-> 360,  confidence |-> 50 ] }

\* (reference, predicted, is_correct) triples of a word's alignment
AlignmentChoices ==
    { << << "K", "K", TRUE >>, << "AE", "AE", TRUE >> >>,
      << << "K", "G", FALSE >>, << "T", "-", FALSE >> >> }

similar_groups ==
    { { "P", "B" }, { "T", "D" }, { "K", "G" },
      { "F", "V" }, { "S", "Z" }, { "TH", "DH" }, { "SH", "ZH" },
      { "M", "N", "NG" }, { "IY", "IH" }, { "EH", "AE" },
      { "AH", "AX" }, { "UW", "UH" }, { "AO", "AA" } }

\* score_phoneme, in halves (2 = 1.0, 1 = 0.5, 0 = 0.0)
score_phoneme_x2(ref, pred) ==
    IF ref = pred THEN 2
    ELSE IF ref = "-" \/ pred = "-" THEN 0
    ELSE IF \E group \in similar_groups : ref \in group /\ pred \in group THEN 1
    ELSE 0

\* score_word: <<word_score (1/10000), phoneme_accuracy (1/10000)>>
score_word(alignment) ==
    IF Len(alignment) = 0 THEN << 0, 0 >>
    ELSE LET phoneme_scores == [ k \in DOMAIN alignment |->
                                    score_phoneme_x2(alignment[k][1], alignment[k][2]) ]
             correct == Cardinality({ k \in DOMAIN alignment : alignment[k][3] })
         IN  << (SumSeq(phoneme_scores) * 10000) \div (2 * Len(alignment)),
                (correct * 10000) \div Len(alignment) >>

Abs(x) == IF x < 0 THEN -x ELSE x

\* expected duration (ms) of a word of word_len characters
expected_duration(word_len) ==
    IF word_len <= 3 THEN 350 ELSE IF word_len <= 6 THEN 500 ELSE 700

\* abs(duration - expected_duration) / expected_duration, in 1/10000
deviation_e4(duration, word_len) ==
    (Abs(duration - expected_duration(word_len)) * 10000) \div expected_duration(word_len)

\* the score of a timing deviation (shared shape of the word fluency score
\* and of the timing accuracy score)
deviation_score_e4(deviation) ==
    IF deviation < 3000 THEN 1000000
    ELSE IF deviation < 5000 THEN 1000000 - (deviation - 3000) * 150
    ELSE Max2(500000, 700000 - (deviation - 5000) * 50)

_calculate_word_fluency_score(word_info, word_len) ==
    deviation_score_e4(deviation_e4(word_info.end - word_info.start, word_len))

\* ---- _calculate_fluency_score ----
speech_rate_e4(words) ==
    LET total_duration == words[Len(words)].end - words[1].start
    IN  IF total_duration > 0 THEN (Len(words) * 10000000) \div total_duration ELSE 0

speech_rate_score_e4(speech_rate) ==
    IF 20000 <= speech_rate /\ speech_rate <= 30000 THEN 1000000
    ELSE IF 15000 <= speech_rate /\ speech_rate < 20000
         THEN 800000 + (speech_rate - 15000) * 40
    ELSE IF 30000 < speech_rate /\ speech_rate <= 35000
         THEN 1000000 - (speech_rate - 30000) * 20
    ELSE IF 10000 <= speech_rate /\ speech_rate < 15000
         THEN 600000 + (speech_rate - 10000) * 40
    ELSE IF 35000 < speech_rate /\ speech_rate <= 40000
         THEN 800000 - (speech_rate - 35000) * 20
    ELSE Max2(400000, Min2(700000, 500000))

\* the positive gaps between consecutive words, by position
pause_positions(words) ==
    { i \in 1 .. (Len(words) - 1) : words[i + 1].start - words[i].end > 0 }

pause_at(words, i) == words[i + 1].start - words[i].end

pause_score_e4(words) ==
    LET pauses == pause_positions(words)
        good == Cardinality({ i \in pauses : pause_at(words, i) <= 600 })
        long == Cardinality({ i \in pauses : pause_at(words, i) > 600
                                               /\ pause_at(words, i) <= 1000 })
        very_long == Cardinality({ i \in pauses : pause_at(words, i) > 1000 })
    IN  IF Cardinality(pauses) > 0
        THEN Max2(0, Min2(1000000, (1000000 * good) \div Cardinality(pauses)
                                      - (long * 3 + very_long * 10) * 10000))
        ELSE 1000000

RECURSIVE SumOver(_, _)
SumOver(S, f) ==
    IF S = {} THEN 0
    ELSE LET x == CHOOSE y \in S : TRUE IN f[x] + SumOver(S \ { x }, f)

continuity_ratio_e4(words) ==
    LET total_duration == words[Len(words)].end - words[1].start
        total_pause_time == SumOver(pause_positions(words),
                                    [ i \in 1 .. (Len(words) - 1) |-> pause_at(words, i) ])
        speaking_time == total_duration - total_pause_time
    IN  IF total_duration > 0 THEN (speaking_time * 10000) \div total_duration ELSE 0

continuity_score_e4(continuity_ratio) ==
    IF 7500 <= continuity_ratio /\ continuity_ratio <= 8500 THEN 1000000
    ELSE IF 7000 <= continuity_ratio /\ continuity_ratio < 7500
         THEN 850000 + (continuity_ratio - 7000) * 300
    ELSE IF 8500 < continuity_ratio /\ continuity_ratio <= 9000
         THEN 1000000 - (continuity_ratio - 8500) * 100
    ELSE IF 6000 <= continuity_ratio /\ continuity_ratio < 7000
         THEN 700000 + (continuity_ratio - 6000) * 150
    ELSE Max2(500000, continuity_ratio * 100)

timing_score_e4(words) ==
    LET timing_deviations == [ k \in DOMAIN words |->
                                  deviation_e4(words[k].end - words[k].start,
                                               Len(words[k].word)) ]
    IN  deviation_score_e4(SumSeq(timing_deviations) \div Len(words))

_calculate_fluency_score(words) ==
    IF Len(words) < 2 THEN 850000
    ELSE Max2(0, Min2(1000000,
            (speech_rate_score_e4(speech_rate_e4(words)) * 35
             + pause_score_e4(words) * 30
             + continuity_score_e4(continuity_ratio_e4(words)) * 20
             + timing_score_e4(words) * 15) \div 100))

\* ---- _build_comprehensive_result ----
\* STEP 1: the entry of transcribed_word_results made from one word_info
transcribed_word_result(word_info, word_alignments) ==
    LET word_clean == word_clean_of(word_info.word)
        aligned == word_clean \in DOMAIN word_alignments
        pronunciation_score == IF aligned
                               THEN score_word(word_alignments[word_clean])[1] * 100
                               ELSE word_info.confidence * 8000
        phoneme_acc == IF aligned THEN score_word(word_alignments[word_clean])[2]
                       ELSE word_info.confidence * 100
        word_fluency == _calculate_word_fluency_score(word_info, Len(word_clean))
        word_overall_score == (pronunciation_score * 6 + word_fluency * 4) \div 10
    IN  [ word |-> word_clean,
          start |-> word_info.start,
          end |-> word_info.end,
          score |-> Round1(word_overall_score),
          pronunciation_score |-> Round1(pronunciation_score),
          fluency_score |-> Round1(word_fluency),
          phoneme_accuracy |-> (phoneme_acc + 50) \div 100,
          confidence |-> word_info.confidence ]

\* the dictionary keeps, for a cleaned word, the entry written last
transcribed_word_results(words_with_times, word_alignments) ==
    LET keys == { word_clean_of(words_with_times[k].word) : k \in DOMAIN words_with_times }
        last(c) == CHOOSE k \in DOMAIN words_with_times :
                      /\ word_clean_of(words_with_times[k].word) = c
                      /\ \A k2 \in DOMAIN words_with_times :
                            word_clean_of(words_with_times[k2].word) = c => k2 <= k
    IN  [ c \in keys |-> transcribed_word_result(words_with_times[last(c)], word_alignments) ]

\* the entry appended for a reference word that was not transcribed
missing_word_result(ref_word_clean) ==
    [ word |-> ref_word_clean, start |-> 0, end |-> 0, score |-> 0,
      pronunciation_score |-> 0, fluency_score |-> 0,
      phoneme_accuracy |-> 0, confidence |-> 0 ]

\* a variant that keeps only the reference words that were transcribed
build_word_results_transcribed_only(reference_words, words_with_times, word_alignments) ==
    LET transcribed == transcribed_word_results(words_with_times, word_alignments)
        found == SelectSeq(reference_words,
                           LAMBDA w : word_clean_of(w) \in DOMAIN transcribed)
    IN  [ k \in DOMAIN found |-> transcribed[word_clean_of(found[k])] ]

\* STEP 2: one entry per reference word, in reference order
build_word_results(reference_words, words_with_times, word_alignments) ==
    LET transcribed == transcribed_word_results(words_with_times, word_alignments)
    IN  [ k \in DOMAIN reference_words |->
            LET ref_word_clean == word_clean_of(reference_words[k])
            IN  IF ref_word_clean \in DOMAIN transcribed
                THEN transcribed[ref_word_clean]
                ELSE missing_word_result(ref_word_clean) ]

\* np.mean of the words' pronunciation scores (tenths), in 1/10000
mean_pronunciation_e4(word_results) ==
    IF Len(word_results) = 0 THEN 0
    ELSE (SumSeq([ k \in DOMAIN word_results |-> word_results[k].pronunciation_score ]) * 1000)
            \div Len(word_results)

overall_score_e4(pronunciation_score, fluency_score) ==
    (pronunciation_score * 6 + fluency_score * 4) \div 10

grade_of(overall_score) ==
    IF overall_score >= 900000 THEN "Excellent"
    ELSE IF overall_score >= 800000 THEN "Good"
    ELSE IF overall_score >= 700000 THEN "Fair"
    ELSE "Needs Improvement"

\* the error reported for entry i (1-based here, position i - 1), <<>> if none
\* a variant that takes a word for missing when its start time is 0
word_error_of_by_start(word_result, i) ==
    IF word_result.start = 0
    THEN << [ word |-> word_result.word, position |-> i - 1, error_type |-> "deletion",
              severity |-> "high" ] >>
    ELSE IF word_result.score < 700
    THEN << [ word |-> word_result.word, position |-> i - 1,
              error_type |-> "mispronunciation",
              severity |-> IF word_result.score < 500 THEN "high" ELSE "moderate" ] >>
    ELSE <<>>

word_error_of(word_result, i) ==
    IF word_result.score = 0 /\ word_result.start = 0 /\ word_result.end = 0
    THEN << [ word |-> word_result.word, position |-> i - 1, error_type |-> "deletion",
              severity |-> "high" ] >>
    ELSE IF word_result.score < 700
    THEN << [ word |-> word_result.word, position |-> i - 1,
              error_type |-> "mispronunciation",
              severity |-> IF word_result.score < 500 THEN "high" ELSE "moderate" ] >>
    ELSE <<>>

build_word_errors(word_results) ==
    Flatten([ i \in DOMAIN word_results |-> word_error_of(word_results[i], i) ])

\* min(100, len(word_errors) / max(len(word_results), 1) * 100), in 1/10000
wer_score_e4(word_errors, word_results) ==
    Min2(1000000, (Len(word_errors) * 1000000) \div Max2(Len(word_results), 1))

build_word_accuracy(word_results) ==
    [ k \in DOMAIN word_results |->
        [ word |-> word_results[k].word,
          accuracy_percentage |-> word_results[k].score,
          pronunciation_score |-> word_results[k].pronunciation_score,
          rhythm_score |-> word_results[k].fluency_score ] ]

_build_comprehensive_result(reference_words, words_with_times, word_alignments, llm_feedback) ==
    LET word_results == build_word_results(reference_words, words_with_times, word_alignments)
        pronunciation_score == mean_pronunciation_e4(word_results)
        fluency_score == _calculate_fluency_score(words_with_times)
        overall_score == overall_score_e4(pronunciation_score, fluency_score)
        word_errors == build_word_errors(word_results)
    IN  [ scores |-> [ sentence_score |-> Round1(overall_score),
                       grade |-> grade_of(overall_score),
                       overall |-> Round1(overall_score),
                       pronunciation |-> Round1(pronunciation_score),
                       fluency |-> Round1(fluency_score),
                       intonation |-> Round1((pronunciation_score * 85) \div 100),
                       stress |-> Round1((pronunciation_score * 80) \div 100) ],
          words |-> word_results,
          word_accuracy |-> build_word_accuracy(word_results),
          word_errors |-> word_errors,
          wer_score |-> Round1(wer_score_e4(word_errors, word_results)),
          transcribed_text |-> [ k \in DOMAIN words_with_times |-> words_with_times[k].word ],
          feedback |-> IF Len(llm_feedback) > 0 THEN llm_feedback
                       ELSE << "AI feedback is currently unavailable." >>,
          original_sentence |-> reference_words ]

\* ------------------------------------------------------------------------
\* difflib.SequenceMatcher(None, a, b), as used by
\* pronunciation_service._align_sequences_dtw_patched (no junk: the
\* automatic junk heuristic only acts on sequences of 200 elements or more)
\*   indices are 0-based and ranges half-open, as in the library
\* ------------------------------------------------------------------------
\* length of the common run of a[i:ahi] and b[j:bhi]
RECURSIVE match_run(_, _, _, _, _, _)
match_run(a, b, i, j, ahi, bhi) ==
    IF i < ahi /\ j < bhi /\ a[i + 1] = b[j + 1]
    THEN 1 + match_run(a, b, i + 1, j + 1, ahi, bhi)
    ELSE 0

\* the longest matching block <<i, j, k>> of a[alo:ahi] and b[blo:bhi]; of
\* the longest ones the block starting earliest in a, then earliest in b
find_longest_match(a, b, alo, ahi, blo, bhi) ==
    LET size(s) == match_run(a, b, s[1], s[2], ahi, bhi)
        starts == { s \in (alo .. (ahi - 1)) \X (blo .. (bhi - 1)) : size(s) > 0 }
    IN  IF starts = {} THEN << alo, blo, 0 >>
        ELSE LET best == CHOOSE s \in starts :
                            \A t \in starts :
                                \/ size(s) > size(t)
                                \/ /\ size(s) = size(t)
                                   /\ \/ s[1] < t[1]
                                      \/ (s[1] = t[1] /\ s[2] <= t[2])
             IN  << best[1], best[2], size(best) >>

\* the matching blocks in increasing order: the longest block, then the
\* blocks found to its left and to its right
RECURSIVE matching_blocks(_, _, _, _, _, _)
matching_blocks(a, b, alo, ahi, blo, bhi) ==
    LET x == find_longest_match(a, b, alo, ahi, blo, bhi)
        i == x[1]
        j == x[2]
        k == x[3]
    IN  IF k = 0 THEN <<>>
        ELSE (IF alo < i /\ blo < j THEN matching_blocks(a, b, alo, i, blo, j) ELSE <<>>)
             \o << x >>
             \o (IF i + k < ahi /\ j + k < bhi
                 THEN matching_blocks(a, b, i + k, ahi, j + k, bhi) ELSE <<>>)

\* adjacent blocks are merged into one
RECURSIVE collapse_adjacent(_, _)
collapse_adjacent(blocks, done) ==
    IF Len(blocks) = 0 THEN done
    ELSE LET x == Head(blocks)
             last == done[Len(done)]
         IN  IF Len(done) > 0 /\ last[1] + last[3] = x[1] /\ last[2] + last[3] = x[2]
             THEN collapse_adjacent(Tail(blocks),
                      [ done EXCEPT ![Len(done)] = << last[1], last[2], last[3] + x[3] >> ])
             ELSE collapse_adjacent(Tail(blocks), Append(done, x))

\* get_matching_blocks(): the merged blocks and the closing block (la, lb, 0)
get_matching_blocks(a, b) ==
    Append(collapse_adjacent(matching_blocks(a, b, 0, Len(a), 0, Len(b)), <<>>),
           << Len(a), Len(b), 0 >>)

\* get_opcodes(): a sequence of <<tag, i1, i2, j1, j2>>
RECURSIVE opcodes_from(_, _, _)
opcodes_from(blocks, i, j) ==
    IF Len(blocks) = 0 THEN <<>>
    ELSE LET ai == Head(blocks)[1]
             bj == Head(blocks)[2]
             size == Head(blocks)[3]
             tag == IF i < ai /\ j < bj THEN "replace"
                    ELSE IF i < ai THEN "delete"
                    ELSE IF j < bj THEN "insert"
                    ELSE ""
         IN  (IF tag # "" THEN << << tag, i, ai, j, bj >> >> ELSE <<>>)
             \o (IF size > 0
                 THEN << << "equal", ai, ai + size, bj, bj + size >> >> ELSE <<>>)
             \o opcodes_from(Tail(blocks), ai + size, bj + size)

get_opcodes(a, b) == opcodes_from(get_matching_blocks(a, b), 0, 0)

\* ------------------------------------------------------------------------
\* pronunciation_service._align_sequences_dtw_patched and its helpers
\*   a token is a phoneme string (a sequence of characters); None is a
\*   value that no token equals
\* ------------------------------------------------------------------------
MaxAlignRef == 3
MaxAlignLearner == 2

AlignTokens == { <<"k">>, <<"t">>, <<"k", "a", "t">> }

None == << "None" >>

\* lines 163-165: the edit distance of two tokens over the longer length
\* (at least 1), in tenths
THRESHOLD_x10 == 6

\* distance_matrix[i, j] > THRESHOLD, compared without division
above_threshold(learner_token, ref_token) ==
    edit_distance_python(learner_token, ref_token) * 10
        > THRESHOLD_x10 * Max2(Max2(Len(learner_token), Len(ref_token)), 1)

\* _align_chars: both lists non-empty: every step of the warping path over
\* the 0/1 character distances gives one character pair
_align_chars(ref_chars, learner_chars) ==
    IF Len(ref_chars) = 0 /\ Len(learner_chars) = 0 THEN <<>>
    ELSE IF Len(ref_chars) = 0
    THEN [ k \in DOMAIN learner_chars |->
             [ ref |-> None, learner |-> << learner_chars[k] >>, is_match |-> FALSE ] ]
    ELSE IF Len(learner_chars) = 0
    THEN [ k \in DOMAIN ref_chars |->
             [ ref |-> << ref_chars[k] >>, learner |-> None, is_match |-> FALSE ] ]
    ELSE LET m == Len(learner_chars)
             n == Len(ref_chars)
             distance_matrix ==
                 [ i \in 0 .. (m - 1) |->
                     [ j \in 0 .. (n - 1) |->
                         IF learner_chars[i + 1] = ref_chars[j + 1] THEN 0 ELSE 1 ] ]
             path == dtw_from_distance_matrix(distance_matrix, m, n)
         IN  [ k \in DOMAIN path |->
                 [ ref |-> << ref_chars[path[k][2] + 1] >>,
                   learner |-> << learner_chars[path[k][1] + 1] >>,
                   is_match |-> ref_chars[path[k][2] + 1] = learner_chars[path[k][1] + 1] ] ]

\* a variant that aligns the characters only when both tokens are present
_build_alignment_item_pairs_only(ref_val, learner_val, is_match) ==
    [ ref |-> ref_val,
      learner |-> learner_val,
      is_match |-> is_match /\ ref_val # None /\ learner_val # None,
      sub_alignment |->
          IF is_match \/ ref_val = None \/ learner_val = None THEN <<>>
          ELSE _align_chars(ref_val, learner_val) ]

_build_alignment_item(ref_val, learner_val, is_match) ==
    [ ref |-> ref_val,
      learner |-> learner_val,
      is_match |-> is_match /\ ref_val # None /\ learner_val # None,
      sub_alignment |->
          IF is_match THEN <<>>
          ELSE _align_chars(IF ref_val = None THEN <<>> ELSE ref_val,
                            IF learner_val = None THEN <<>> ELSE learner_val) ]

\* the entries appended for one opcode
alignment_of_opcode(op, ref_seq, learner_seq) ==
    LET tag == op[1]
        i1 == op[2]
        i2 == op[3]
        j1 == op[4]
        j2 == op[5]
    IN  IF tag = "equal"
        THEN [ i \in 1 .. (i2 - i1) |->
                 _build_alignment_item(ref_seq[i1 + i], learner_seq[j1 + i], TRUE) ]
        ELSE IF tag = "replace"
        THEN LET sub_ref == SubSeq(ref_seq, i1 + 1, i2)
                 sub_learner == SubSeq(learner_seq, j1 + 1, j2)
                 max_len == Max2(Len(sub_ref), Len(sub_learner))
             IN  [ i \in 1 .. max_len |->
                     LET ref_val == IF i <= Len(sub_ref) THEN sub_ref[i] ELSE None
                         learner_val == IF i <= Len(sub_learner) THEN sub_learner[i] ELSE None
                     IN  _build_alignment_item(ref_val, learner_val, ref_val = learner_val) ]
        ELSE IF tag = "delete"
        THEN [ i \in 1 .. (i2 - i1) |-> _build_alignment_item(ref_seq[i1 + i], None, FALSE) ]
        ELSE [ i \in 1 .. (j2 - j1) |-> _build_alignment_item(None, learner_seq[j1 + i], FALSE) ]

\* a variant of the final loop that drops the entries of 'delete' opcodes
alignment_of_opcodes_without_delete(ops, ref_seq, learner_seq) ==
    Flatten([ k \in DOMAIN ops |->
                IF ops[k][1] = "delete" THEN <<>>
                ELSE alignment_of_opcode(ops[k], ref_seq, learner_seq) ])

\* the final loop over sm.get_opcodes()
alignment_of_opcodes(ops, ref_seq, learner_seq) ==
    Flatten([ k \in DOMAIN ops |-> alignment_of_opcode(ops[k], ref_seq, learner_seq) ])

\* Lines 156-191 fill the normalised distance matrix, run the warping and
\* collect good_alignments, the pairs of the path below THRESHOLD; no later
\* line reads good_alignments, ref_mapped or learner_mapped: the returned
\* list is built from the opcodes alone.
_align_sequences_dtw_patched(ref_seq, learner_seq) ==
    IF Len(ref_seq) = 0 /\ Len(learner_seq) = 0 THEN <<>>
    ELSE IF Len(ref_seq) = 0
    THEN [ k \in DOMAIN learner_seq |-> _build_alignment_item(None, learner_seq[k], FALSE) ]
    ELSE IF Len(learner_seq) = 0
    THEN [ k \in DOMAIN ref_seq |-> _build_alignment_item(ref_seq[k], None, FALSE) ]
    ELSE alignment_of_opcodes(get_opcodes(ref_seq, learner_seq), ref_seq, learner_seq)

\* ------------------------------------------------------------------------
\* llm_service.LLMService.generate_pronunciation_feedback
\*   a text is a sequence of tokens, a token being a blank " " or a run of
\*   non-blank characters; "" is the empty sequence
\* ------------------------------------------------------------------------
\* what the feedback backend does with a request: there is no API key, the
\* call raises, the answer is not a usable HTTP 200, or it carries a text
LlmReplies ==
    { [ kind |-> "no_api_key", text |-> <<>> ],
      [ kind |-> "exception",  text |-> <<>> ],
      [ kind |-> "http_error", text |-> <<>> ],
      [ kind |-> "text", text |-> << " " >> ],
      [ kind |-> "text", text |-> << " ", "Well", " ", "done.", " " >> ] }

RECURSIVE lstrip_text(_)
lstrip_text(t) == IF Len(t) > 0 /\ Head(t) = " " THEN lstrip_text(Tail(t)) ELSE t

RECURSIVE rstrip_text(_)
rstrip_text(t) ==
    IF Len(t) > 0 /\ t[Len(t)] = " " THEN rstrip_text(SubSeq(t, 1, Len(t) - 1)) ELSE t

\* str.strip()
strip_text(t) == rstrip_text(lstrip_text(t))

\* a variant that returns the text of the answer as it came
generate_pronunciation_feedback_unstripped(reply) ==
    IF reply.kind = "text" THEN reply.text ELSE <<>>

\* "" without API key, on any exception and on an unusable answer;
\* otherwise the text of the answer, stripped
generate_pronunciation_feedback(reply) ==
    IF reply.kind = "text" THEN strip_text(reply.text) ELSE <<>>

\* ------------------------------------------------------------------------
\* whisper_service.WhisperService.transcribe_audio_base64
\*   an audio clip is described by what the models make of it:
\*     decodable  : base64 decoding and loading succeed
\*     speech     : the words Whisper hears, each with the phoneme string
\*                  the phonemizer gives for it (PhonemeItems)
\*     confidence : the average segment confidence, in hundredths
\* ------------------------------------------------------------------------
MaxSpeech == 2
MaxSentence == 2

AudioClips ==
    { [ decodable |-> FALSE, speech |-> <<>>, confidence |-> 0 ] }
    \cup { [ decodable |-> TRUE, speech |-> s, confidence |-> 90 ] :
             s \in ListsUpTo(PhonemeItems, MaxSpeech) }

\* a variant that also returns the word timestamps
transcribe_audio_base64_with_ts(audio) ==
    IF audio.decodable
    THEN << [ is_none |-> FALSE, words |-> audio.speech ], audio.confidence,
            [ k \in DOMAIN audio.speech |-> [ word |-> audio.speech[k].word ] ] >>
    ELSE << [ is_none |-> FALSE, words |-> <<>> ], 0, <<>> >>

\* returns the pair (transcribed_text, confidence); ("", 0.0) on any
\* exception; the text is never None
transcribe_audio_base64(audio) ==
    IF audio.decodable
    THEN << [ is_none |-> FALSE, words |-> audio.speech ], audio.confidence >>
    ELSE << [ is_none |-> FALSE, words |-> <<>> ], 0 >>

\* ------------------------------------------------------------------------
\* pronunciation_service.PronunciationService.process_phonetic_evaluation
\* ------------------------------------------------------------------------
\* the outcome of evaluate_pronunciation_phonemes_aligned: "returned" or
\* the call or line that raised
evaluate_outcome(ref, learner) ==
    LET ref_words == [ k \in DOMAIN ref |-> ref[k].word ]
        est_words == [ k \in DOMAIN learner |-> learner[k].word ]
    IN  IF DtwRaises(est_words, ref_words) THEN "raised: get_best_mapped_words_dtw"
        ELSE IF wer_raises(ref) THEN "raised: calculate_wer"
        ELSE IF Len(ref) > 0 THEN "raised: wa.pronunciation_score"
        ELSE "returned"

\* the steps of evaluate_pronunciation_phonemes_aligned that ran
evaluate_steps(ref, learner) ==
    IF evaluate_outcome(ref, learner) = "raised: get_best_mapped_words_dtw"
    THEN << "map" >> ELSE << "map", "score" >>

HTTPException(status_code, detail) ==
    [ status |-> status_code, detail |-> detail, body |-> <<>> ]

\* lines 339-352: the feedback of the response.  The service catches its
\* own exceptions and answers "", so the except branch of line 350 is not
\* taken with it.
phonetic_feedback(reply) ==
    LET feedback == generate_pronunciation_feedback(reply)
    IN  IF Len(feedback) = 0 \/ Len(strip_text(feedback)) = 0
        THEN << "AI feedback is currently unavailable." >>
        ELSE feedback

\* the handler on a request (sentence, audio) with the feedback backend
\* answering reply; sentence is the list of the reference words, each with
\* the phoneme string the phonemizer gives for it.  The value is
\* [steps, response]: the steps that ran, in order, and the HTTP outcome.
\*   line 307       the pair returned by the transcriber is unpacked into
\*                  three names, which raises ValueError
\*   lines 310-311  HTTP 500 when the text is None
\*   lines 313-324  phonemes of the sentence and of the transcription
\*   lines 327-331  evaluate_pronunciation_phonemes_aligned
\*   lines 335-337  the phoneme alignment (phoneme strings stripped, empty
\*                  ones dropped)
\*   lines 339-352  feedback
\*   lines 355-367  the response
\*   lines 368-372  HTTPException is passed on, any other exception becomes
\*                  HTTP 500 "An internal server error occurred."
process_phonetic_evaluation(sentence, audio, reply) ==
    LET transcribed == transcribe_audio_base64(audio)
        internal_error == HTTPException(500, "An internal server error occurred.")
    IN  IF Len(transcribed) # 3
        THEN [ steps |-> << "transcribe" >>, response |-> internal_error ]
        ELSE IF transcribed[1].is_none
        THEN [ steps |-> << "transcribe" >>,
               response |-> HTTPException(500, "Could not transcribe audio.") ]
        ELSE LET learner == transcribed[1].words
                 outcome == evaluate_outcome(sentence, learner)
                 ran == << "transcribe", "phonemize" >> \o evaluate_steps(sentence, learner)
             IN  IF outcome # "returned"
                 THEN [ steps |-> ran, response |-> internal_error ]
                 ELSE LET nonempty(l) == SelectSeq([ k \in DOMAIN l |-> strip_text(l[k].phoneme) ],
                                                   LAMBDA p : Len(p) > 0)
                      IN  [ steps |-> ran \o << "align", "feedback" >>,
                            response |->
                              [ status |-> 200, detail |-> "",
                                body |->
                                  [ original_sentence |-> sentence,
                                    transcribed_text |-> learner,
                                    scores |-> [ pronunciation |-> 0, fluency |-> 0,
                                                 intonation |-> 0, stress |-> 0,
                                                 overall |-> 0 ],
                                    word_accuracy |-> <<>>,
                                    phoneme_errors |-> <<>>,
                                    phoneme_alignment |->
                                        _align_sequences_dtw_patched(nonempty(sentence),
                                                                     nonempty(learner)),
                                    feedback |-> phonetic_feedback(reply),
                                    wer_score |-> 0,
                                    confidence |-> transcribed[2] ] ] ]

\* ------------------------------------------------------------------------
\* pronunciation_assessment: reference phonemes and phoneme alignment
\*   phonemes are ARPAbet symbols (strings); "-" marks a gap
\* ------------------------------------------------------------------------
\* text.upper() on the characters of the model
upper_word(w) == [ k \in DOMAIN w |-> upper_char(w[k]) ]

\* the pronunciation of an upper-cased token: the first dictionary entry
\* without its stress digits for a dictionary word; for any other token the
\* alphanumeric symbols of the g2p output, upper-cased, stress digits kept
g2p_phonemes(word) ==
    CASE word = << "A" >> -> << "AH" >>
      [] word = << "B" >> -> << "B", "IY" >>
      [] word = << "B", "." >> -> << "B", "IY1" >>
      [] OTHER -> <<>>

\* get_reference_phonemes: a dictionary keyed by the upper-cased tokens
get_reference_phonemes(reference_words) ==
    [ word \in { upper_word(reference_words[k]) : k \in DOMAIN reference_words } |->
        g2p_phonemes(word) ]

\* a variant in which replacing a phoneme costs 2
RECURSIVE dp_cell_substitution_2(_, _, _, _)
dp_cell_substitution_2(ref, pred, i, j) ==
    IF i = 0 THEN j
    ELSE IF j = 0 THEN i
    ELSE IF ref[i] = pred[j] THEN dp_cell_substitution_2(ref, pred, i - 1, j - 1)
    ELSE Min2(Min2(1 + dp_cell_substitution_2(ref, pred, i - 1, j),
                   1 + dp_cell_substitution_2(ref, pred, i, j - 1)),
              2 + dp_cell_substitution_2(ref, pred, i - 1, j - 1))

\* dp[i][j] of align_phoneme_sequences
RECURSIVE dp_cell(_, _, _, _)
dp_cell(ref, pred, i, j) ==
    IF i = 0 THEN j
    ELSE IF j = 0 THEN i
    ELSE IF ref[i] = pred[j] THEN dp_cell(ref, pred, i - 1, j - 1)
    ELSE 1 + Min2(Min2(dp_cell(ref, pred, i - 1, j), dp_cell(ref, pred, i, j - 1)),
                  dp_cell(ref, pred, i - 1, j - 1))

\* a variant of the backtracking loop that pairs a predicted phoneme with
\* the reference phoneme before it instead of a gap
RECURSIVE phoneme_backtrack_no_insertion(_, _, _, _)
phoneme_backtrack_no_insertion(ref, pred, i, j) ==
    IF i = 0 /\ j = 0 THEN <<>>
    ELSE IF i > 0 /\ j > 0 /\ ref[i] = pred[j]
    THEN Append(phoneme_backtrack_no_insertion(ref, pred, i - 1, j - 1),
                << ref[i], pred[j], TRUE >>)
    ELSE IF i > 0 /\ j > 0 /\ dp_cell(ref, pred, i, j) = dp_cell(ref, pred, i - 1, j - 1) + 1
    THEN Append(phoneme_backtrack_no_insertion(ref, pred, i - 1, j - 1),
                << ref[i], pred[j], FALSE >>)
    ELSE IF i > 0 /\ (j = 0 \/ dp_cell(ref, pred, i, j) = dp_cell(ref, pred, i - 1, j) + 1)
    THEN Append(phoneme_backtrack_no_insertion(ref, pred, i - 1, j),
                << ref[i], "-", FALSE >>)
    ELSE Append(phoneme_backtrack_no_insertion(ref, pred, i, j - 1),
                << ref[Max2(i, 1)], pred[j], FALSE >>)

\* the backtracking loop from (i, j), in the order of the reversed list
RECURSIVE phoneme_backtrack(_, _, _, _)
phoneme_backtrack(ref, pred, i, j) ==
    IF i = 0 /\ j = 0 THEN <<>>
    ELSE IF i > 0 /\ j > 0 /\ ref[i] = pred[j]
    THEN Append(phoneme_backtrack(ref, pred, i - 1, j - 1), << ref[i], pred[j], TRUE >>)
    ELSE IF i > 0 /\ j > 0 /\ dp_cell(ref, pred, i, j) = dp_cell(ref, pred, i - 1, j - 1) + 1
    THEN Append(phoneme_backtrack(ref, pred, i - 1, j - 1), << ref[i], pred[j], FALSE >>)
    ELSE IF i > 0 /\ (j = 0 \/ dp_cell(ref, pred, i, j) = dp_cell(ref, pred, i - 1, j) + 1)
    THEN Append(phoneme_backtrack(ref, pred, i - 1, j), << ref[i], "-", FALSE >>)
    ELSE Append(phoneme_backtrack(ref, pred, i, j - 1), << "-", pred[j], FALSE >>)

\* align_phoneme_sequences: [] when either sequence is empty
align_phoneme_sequences(reference, predicted) ==
    IF Len(reference) = 0 \/ Len(predicted) = 0 THEN <<>>
    ELSE phoneme_backtrack(reference, predicted, Len(reference), Len(predicted))

\* the words of words_with_times that have reference phonemes, in order,
\* as <<word_clean, number of reference phonemes>>
word_boundaries(reference_phoneme_dict, words_with_times) ==
    LET ref_phonemes(k) ==
            LET word_clean == word_clean_of(words_with_times[k].word)
            IN  IF word_clean \in DOMAIN reference_phoneme_dict
                THEN reference_phoneme_dict[word_clean] ELSE <<>>
        kept == SelectSeq([ k \in DOMAIN words_with_times |-> k ],
                          LAMBDA k : Len(ref_phonemes(k)) > 0)
    IN  [ b \in DOMAIN kept |->
            [ word |-> word_clean_of(words_with_times[kept[b]].word),
              phonemes |-> ref_phonemes(kept[b]) ] ]

\* the while loop that collects the alignment pairs of one word: the value
\* is <<word_alignment, align_idx>>
RECURSIVE take_word_alignment(_, _, _, _, _)
take_word_alignment(alignment, align_idx, ref_count, length, word_alignment) ==
    IF ref_count < length /\ align_idx < Len(alignment)
    THEN take_word_alignment(alignment, align_idx + 1,
             IF alignment[align_idx + 1][1] # "-" THEN ref_count + 1 ELSE ref_count,
             length, Append(word_alignment, alignment[align_idx + 1]))
    ELSE << word_alignment, align_idx >>

\* the loop over the word boundaries; a word met again replaces its entry
RECURSIVE split_alignment(_, _, _, _)
split_alignment(boundaries, alignment, ref_idx, word_alignments) ==
    IF Len(boundaries) = 0 THEN word_alignments
    ELSE LET word == Head(boundaries).word
             taken == take_word_alignment(alignment, ref_idx, 0,
                                          Len(Head(boundaries).phonemes), <<>>)
         IN  split_alignment(Tail(boundaries), alignment, taken[2],
                 [ w \in DOMAIN word_alignments \cup { word } |->
                     IF w = word THEN taken[1] ELSE word_alignments[w] ])

\* align_phonemes_to_words_v2: with no predicted phoneme it returns one
\* empty dictionary (here <<>>, a value of length 0); otherwise the pair
\* (word_phonemes, word_alignments), of which the model keeps, as the
\* first component, the words and, as the second, their alignments
align_phonemes_to_words_v2(predicted_phonemes, reference_phoneme_dict, words_with_times) ==
    IF Len(predicted_phonemes) = 0 THEN <<>>
    ELSE LET boundaries == word_boundaries(reference_phoneme_dict, words_with_times)
             full_reference == Flatten([ b \in DOMAIN boundaries |-> boundaries[b].phonemes ])
             alignment == align_phoneme_sequences(full_reference, predicted_phonemes)
             word_alignments == split_alignment(boundaries, alignment, 0, <<>>)
         IN  << DOMAIN word_alignments, word_alignments >>

\* ------------------------------------------------------------------------
\* pronunciation_assessment.PronunciationAssessmentService
\*   .evaluate_pronunciation_assessment and the endpoint of main.py
\*   a recording is described by what the models make of it:
\*     decodable          : base64 decoding and loading succeed
\*     transcribable      : WhisperX transcribes and aligns it
\*     words_with_times   : the words WhisperX finds
\*     predicted_phonemes : the phonemes Wave2Phoneme predicts ([] when it
\*                          fails or finds none)
\* ------------------------------------------------------------------------
MaxAssessRef == 1
MaxAssessWords == 2
MaxPredicted == 1

PredictedPhonemes == { "AH", "B" }

\* words found in a recording: "A" said in 100 ms, and "B." half a second
\* long after a pause
AssessWordInfoItems ==
    { [ word |-> << "A" >>,      start |-> 0,   end |-> 100,  confidence |-> 90 ],
      [ word |-> << "B", "." >>, start |-> 720, end |-> 1220, confidence |-> 100 ] }

Recordings ==
    { [ decodable |-> FALSE, transcribable |-> FALSE,
        words_with_times |-> <<>>, predicted_phonemes |-> <<>> ],
      [ decodable |-> TRUE, transcribable |-> FALSE,
        words_with_times |-> <<>>, predicted_phonemes |-> <<>> ] }
    \cup { [ decodable |-> TRUE, transcribable |-> TRUE,
             words_with_times |-> wt, predicted_phonemes |-> p ] :
             wt \in ListsUpTo(AssessWordInfoItems, MaxAssessWords),
             p \in ListsUpTo(PredictedPhonemes, MaxPredicted) }

\* the dictionary returned by the except branch (lines 139-148)
error_result(message) ==
    [ error |-> message,
      scores |-> [ sentence_score |-> 0, grade |-> "Error", overall |-> 0,
                   pronunciation |-> 0, fluency |-> 0, intonation |-> 0, stress |-> 0 ],
      words |-> <<>>,
      word_accuracy |-> <<>>,
      transcribed_text |-> <<>>,
      feedback |-> << "Co loi xay ra trong qua trinh danh gia phat am." >> ]

\*   line 87        _preprocess_audio_from_base64 (raises on bad audio)
\*   lines 97-103   get_word_timestamps (raises when WhisperX fails)
\*   line 106       get_reference_phonemes
\*   lines 114-116  predict_phonemes_full_audio ([] on any failure)
\*   lines 119-123  align_phonemes_to_words_v2, unpacked into two names:
\*                  the single empty dictionary raises ValueError
\*   lines 126-129  _build_comprehensive_result, which asks the feedback
\*                  service (lines 533-556)
\*   lines 139-148  any exception gives the error dictionary
evaluate_pronunciation_assessment(recording, reference_words, reply) ==
    IF ~recording.decodable THEN error_result("audio could not be loaded")
    ELSE IF ~recording.transcribable THEN error_result("transcription failed")
    ELSE LET reference_phonemes == get_reference_phonemes(reference_words)
             aligned == align_phonemes_to_words_v2(recording.predicted_phonemes,
                                                   reference_phonemes,
                                                   recording.words_with_times)
         IN  IF Len(aligned) # 2
             THEN error_result("not enough values to unpack (expected 2, got 0)")
             ELSE _build_comprehensive_result(reference_words, recording.words_with_times,
                                              aligned[2],
                                              generate_pronunciation_feedback(reply))

\* main.py, the endpoint /evaluate-pronunciation-phonetic: HTTP 500 when
\* the result has the key 'error', else the response built from the result
evaluate_pronunciation_phonetic(result) ==
    IF "error" \in DOMAIN result
    THEN [ status |-> 500, detail |-> result.error, body |-> <<>> ]
    ELSE [ status |-> 200, detail |-> "",
           body |-> [ original_sentence |-> result.original_sentence,
                      transcribed_text |-> result.transcribed_text,
                      word_accuracy |-> result.word_accuracy,
                      scores |-> [ pronunciation |-> result.scores.pronunciation,
                                   fluency |-> 0, intonation |-> 0, stress |-> 0,
                                   overall |-> result.scores.overall ],
                      feedback |-> result.feedback ] ]

\* ------------------------------------------------------------------------
\* my_whisper_app.evaluate_pronunciation_wer and the /evaluate handler of
\* server.py
\*   a sentence is the list of its blank-separated tokens, a token a
\*   sequence of characters
\* ------------------------------------------------------------------------
MaxServerSentence == 1

Requests == { 1, 2 }

\* the file names a client may send with its upload ('' is refused)
Filenames == { "a.wav", "b.wav" }

\* what Whisper hears in the audio uploaded by a request
TranscriptOf(r) == IF r = 1 THEN << << "a" >> >> ELSE << << "b" >> >>

lower_char(c) ==
    CASE c = "A" -> "a"
      [] c = "B" -> "b"
      [] OTHER -> c

\* process_text_to_words: lower case, punctuation removed, empty words
\* dropped
process_text_to_words(text) ==
    SelectSeq([ k \in DOMAIN text |->
                  LET kept == SelectSeq(text[k], LAMBDA c : c \notin StripChars)
                  IN  [ i \in DOMAIN kept |-> lower_char(kept[i]) ] ],
              LAMBDA w : Len(w) > 0)

\* jiwer.wer on a non-empty reference: word-level edit distance over the
\* number of reference words, in 1/10000
jiwer_wer_e4(ref_words, user_words) ==
    (dp_cell(ref_words, user_words, Len(ref_words), Len(user_words)) * 10000)
        \div Len(ref_words)

\* evaluate_pronunciation_wer on the transcript Whisper gives for the file;
\* the score is in hundredths of a point (round(score, 2))
evaluate_pronunciation_wer(user_transcript, reference_text) ==
    LET ref_words == process_text_to_words(reference_text)
        user_words == process_text_to_words(user_transcript)
    IN  IF Len(ref_words) = 0
        THEN [ pronunciation_score |-> 0, wer |-> 10000, words |-> <<>> ]
        ELSE LET error == jiwer_wer_e4(ref_words, user_words)
             IN  [ pronunciation_score |-> Max2(0, 10000 - error),
                   reference_text |-> reference_text,
                   user_transcript |-> user_transcript,
                   wer |-> error,
                   words |->
                     [ i \in DOMAIN ref_words |->
                         IF i <= Len(user_words)
                         THEN IF ref_words[i] = user_words[i]
                              THEN [ word |-> ref_words[i], status |-> "correct" ]
                              ELSE [ word |-> ref_words[i], status |-> "mispronounced",
                                     pronounced_as |-> user_words[i] ]
                         ELSE [ word |-> ref_words[i], status |-> "missing" ] ] ]

\* ------------------------------------------------------------------------
\* State: one request at a time is followed from the call to its outcome.
\* ------------------------------------------------------------------------
VARIABLES
    pc,                     \* "idle" | "mapped" | "raised" | "evaluated" | "built"
    words_estimated,        \* candidate (transcribed) words of the mapper call
    words_real,             \* reference words of the mapper call
    dtw_path,               \* warping path of the mapper call
    mapped_words,           \* first list returned by get_best_mapped_words_dtw
    mapped_words_indices,   \* second list returned by get_best_mapped_words_dtw
    reference_phonemes,     \* arguments of evaluate_pronunciation_phonemes_aligned
    learner_phonemes,
    learner_words_with_ts,
    word_scores,            \* per reference word, the values handed to WordAccuracyData
    phoneme_errors,         \* the error list built by the scoring loop
    eval_outcome,           \* "none" | "returned" | the call or line that raised
    scores,                 \* the PronunciationScore returned, <<>> if none
    reference_text,         \* arguments of _build_comprehensive_result
    words_with_times,
    word_alignments,
    result,                 \* the dictionary it returned, <<>> if none
    phonetic_request,       \* the request given to process_phonetic_evaluation
    steps_run,              \* the steps of the handler that ran, in order
    http_response,          \* its outcome: [status, detail, body]
    assessment_request,     \* the request given to evaluate_pronunciation_assessment
    assessment_result,      \* the dictionary it returned
    endpoint_response,      \* the answer of /evaluate-pronunciation-phonetic
    aligner,                \* the aligner called, "" if none
    ref_seq,                \* its arguments
    learner_seq,
    final_alignment,        \* the list it returned
    rpc,                    \* server.py: the position of each request's handler
    request_file,           \* the file name each request carries
    request_sentence,       \* the sentence each request carries
    uploads,                \* the upload folder: file name -> the request whose
                            \* audio the file holds, NoFile if there is no file
    transcribed_from,       \* the request whose audio each handler transcribed
    flask_response,         \* the answer of each handler
    apc,                    \* evaluate_pronunciation_assessment: the position of the
                            \* call, "idle" before it and "returned" after it
    tmpdir,                 \* the names of the files in the temporary directory
    temp_path,              \* tmp_file.name of _preprocess_audio_from_base64,
                            \* NoFile before the file is created
    temp_audio_path,        \* tmp_file.name of the file for WhisperX, NoFile
                            \* before the file is created
    returned                \* what the call returned: "none" | "result" | "error"

mapper_vars == << words_estimated, words_real, dtw_path, mapped_words, mapped_words_indices >>
eval_vars == << reference_phonemes, learner_phonemes, learner_words_with_ts,
                word_scores, phoneme_errors, eval_outcome, scores >>
build_vars == << reference_text, words_with_times, word_alignments, result >>
phonetic_vars == << phonetic_request, steps_run, http_response >>
assess_vars == << assessment_request, assessment_result, endpoint_response >>
align_vars == << aligner, ref_seq, learner_seq, final_alignment >>
server_vars == << rpc, request_file, request_sentence, uploads, transcribed_from,
                 flask_response >>
temp_vars == << apc, tmpdir, temp_path, temp_audio_path, returned >>
call_vars == << pc, mapper_vars, eval_vars, build_vars, phonetic_vars, assess_vars,
                align_vars >>
other_vars == << call_vars, temp_vars >>
vars == << other_vars, server_vars >>

NoFile == 0

Init ==
    /\ pc = "idle"
    /\ words_estimated = <<>>
    /\ words_real = <<>>
    /\ dtw_path = <<>>
    /\ mapped_words = <<>>
    /\ mapped_words_indices = <<>>
    /\ reference_phonemes = <<>>
    /\ learner_phonemes = <<>>
    /\ learner_words_with_ts = <<>>
    /\ word_scores = <<>>
    /\ phoneme_errors = <<>>
    /\ eval_outcome = "none"
    /\ scores = <<>>
    /\ reference_text = <<>>
    /\ words_with_times = <<>>
    /\ word_alignments = <<>>
    /\ result = <<>>
    /\ phonetic_request = <<>>
    /\ steps_run = <<>>
    /\ http_response = <<>>
    /\ assessment_request = <<>>
    /\ assessment_result = <<>>
    /\ endpoint_response = <<>>
    /\ aligner = ""
    /\ ref_seq = <<>>
    /\ learner_seq = <<>>
    /\ final_alignment = <<>>
    /\ rpc = [ r \in Requests |-> "idle" ]
    /\ request_file = [ r \in Requests |-> "" ]
    /\ request_sentence = [ r \in Requests |-> <<>> ]
    /\ uploads = [ f \in Filenames |-> NoFile ]
    /\ transcribed_from = [ r \in Requests |-> NoFile ]
    /\ flask_response = [ r \in Requests |-> [ status |-> 0, body |-> "" ] ]
    /\ apc = "idle"
    /\ tmpdir = {}
    /\ temp_path = NoFile
    /\ temp_audio_path = NoFile
    /\ returned = "none"

\* the mapper variables after get_best_mapped_words_dtw(est, real) returned
\* res = <<path, <<mapped words, mapped indices>>>> (all empty when it raised)
MapperRun(est, real) ==
    IF DtwRaises(est, real) THEN << <<>>, << <<>>, <<>> >> >>
    ELSE LET path == DtwPath(est, real)
         IN  << path, get_resulting_string(MappedIndices(path), est, real) >>

MapperCall(est, real, res) ==
    /\ words_estimated' = est
    /\ words_real' = real
    /\ dtw_path' = res[1]
    /\ mapped_words' = res[2][1]
    /\ mapped_words_indices' = res[2][2]

\* a call of get_best_mapped_words_dtw(est, real)
MapWords(est, real) ==
    /\ pc = "idle"
    /\ MapperCall(est, real, MapperRun(est, real))
    /\ pc' = IF DtwRaises(est, real) THEN "raised" ELSE "mapped"
    /\ UNCHANGED << eval_vars, build_vars, phonetic_vars, assess_vars, align_vars,
                    server_vars, temp_vars >>

\* a call of evaluate_pronunciation_phonemes_aligned(ref, learner, ts)
\*   line 51       the mapper call (raises on an empty reference list)
\*   lines 58-110  the scoring loop
\*   lines 112-116 jiwer.wer (raises when the reference has no phoneme)
\*   lines 119-128 the averages; WordAccuracyData (models.py) declares only
\*                 word and accuracy_percentage, so reading
\*                 wa.pronunciation_score raises AttributeError
\*   lines 130-140 the returned scores
EvaluatePronunciationPhonemesAligned(ref, learner, ts) ==
    LET ref_words == [ k \in DOMAIN ref |-> ref[k].word ]
        est_words == [ k \in DOMAIN learner |-> learner[k].word ]
    IN  \E res \in { MapperRun(est_words, ref_words) } :
        /\ pc = "idle"
        /\ pc' = "evaluated"
        /\ reference_phonemes' = ref
        /\ learner_phonemes' = learner
        /\ learner_words_with_ts' = ts
        /\ MapperCall(est_words, ref_words, res)
        /\ UNCHANGED << build_vars, phonetic_vars, assess_vars, align_vars, server_vars, temp_vars >>
        /\ IF DtwRaises(est_words, ref_words)
           THEN /\ eval_outcome' = "raised: get_best_mapped_words_dtw"
                /\ word_scores' = <<>>
                /\ phoneme_errors' = <<>>
                /\ scores' = <<>>
           ELSE LET mapped_indices == res[2][2]
                    word_accuracy ==
                        [ i \in DOMAIN ref |->
                            score_word_aligned(ref[i], mapped_indices[i], learner, ts) ]
                IN  /\ word_scores' = word_accuracy
                    /\ phoneme_errors' = Flatten([ i \in DOMAIN ref |-> word_accuracy[i].error ])
                    /\ IF wer_raises(ref)
                       THEN /\ eval_outcome' = "raised: calculate_wer"
                            /\ scores' = <<>>
                       ELSE IF Len(word_accuracy) > 0
                       THEN /\ eval_outcome' = "raised: wa.pronunciation_score"
                            /\ scores' = <<>>
                       ELSE /\ eval_outcome' = "returned"
                            /\ scores' = [ pronunciation |-> 0, fluency |-> 0,
                                           intonation |-> 0, stress |-> 0, overall |-> 0 ]

\* a call of _build_comprehensive_result; llm_feedback is what the feedback
\* service returned, "" when it fails or answers nothing
BuildComprehensiveResult(ref, wt, al, llm_feedback) ==
    /\ pc = "idle"
    /\ pc' = "built"
    /\ reference_text' = ref
    /\ words_with_times' = wt
    /\ word_alignments' = al
    /\ result' = _build_comprehensive_result(ref, wt, al, llm_feedback)
    /\ UNCHANGED << mapper_vars, eval_vars, phonetic_vars, assess_vars, align_vars,
                    server_vars, temp_vars >>

\* the caller drops the result; the next request starts from scratch
Return ==
    /\ pc # "idle"
    /\ pc' = "idle"
    /\ words_estimated' = <<>>
    /\ words_real' = <<>>
    /\ dtw_path' = <<>>
    /\ mapped_words' = <<>>
    /\ mapped_words_indices' = <<>>
    /\ reference_phonemes' = <<>>
    /\ learner_phonemes' = <<>>
    /\ learner_words_with_ts' = <<>>
    /\ word_scores' = <<>>
    /\ phoneme_errors' = <<>>
    /\ eval_outcome' = "none"
    /\ scores' = <<>>
    /\ reference_text' = <<>>
    /\ words_with_times' = <<>>
    /\ word_alignments' = <<>>
    /\ result' = <<>>
    /\ phonetic_request' = <<>>
    /\ steps_run' = <<>>
    /\ http_response' = <<>>
    /\ assessment_request' = <<>>
    /\ assessment_result' = <<>>
    /\ endpoint_response' = <<>>
    /\ aligner' = ""
    /\ ref_seq' = <<>>
    /\ learner_seq' = <<>>
    /\ final_alignment' = <<>>
    /\ UNCHANGED << server_vars, temp_vars >>

\* ------------------------------------------------------------------------
\* Requests to the phonetic handler, to the assessment service and calls of
\* the two aligners
\* ------------------------------------------------------------------------
\* a request handled by process_phonetic_evaluation
ProcessPhoneticEvaluation(sentence, audio, reply) ==
    \E res \in { process_phonetic_evaluation(sentence, audio, reply) } :
        /\ pc = "idle"
        /\ pc' = "responded"
        /\ phonetic_request' = [ sentence |-> sentence, audio |-> audio, reply |-> reply ]
        /\ steps_run' = res.steps
        /\ http_response' = res.response
        /\ UNCHANGED << mapper_vars, eval_vars, build_vars, assess_vars, align_vars,
                        server_vars, temp_vars >>

\* a request to /evaluate-pronunciation-phonetic: the assessment and the
\* endpoint's answer
EvaluatePronunciationAssessment(recording, reference_words, reply) ==
    \E res \in { evaluate_pronunciation_assessment(recording, reference_words, reply) } :
        /\ pc = "idle"
        /\ pc' = "assessed"
        /\ assessment_request' = [ recording |-> recording,
                                   reference_text |-> reference_words,
                                   reply |-> reply ]
        /\ assessment_result' = res
        /\ endpoint_response' = evaluate_pronunciation_phonetic(res)
        /\ UNCHANGED << mapper_vars, eval_vars, build_vars, phonetic_vars, align_vars,
                        server_vars, temp_vars >>

\* a call of _align_sequences_dtw_patched(ref, learner)
AlignSequencesDtwPatched(ref, learner) ==
    /\ pc = "idle"
    /\ pc' = "aligned"
    /\ aligner' = "_align_sequences_dtw_patched"
    /\ ref_seq' = ref
    /\ learner_seq' = learner
    /\ final_alignment' = _align_sequences_dtw_patched(ref, learner)
    /\ UNCHANGED << mapper_vars, eval_vars, build_vars, phonetic_vars, assess_vars,
                    server_vars, temp_vars >>

\* a call of align_phoneme_sequences(reference, predicted)
AlignPhonemeSequences(reference, predicted) ==
    /\ pc = "idle"
    /\ pc' = "aligned"
    /\ aligner' = "align_phoneme_sequences"
    /\ ref_seq' = reference
    /\ learner_seq' = predicted
    /\ final_alignment' = align_phoneme_sequences(reference, predicted)
    /\ UNCHANGED << mapper_vars, eval_vars, build_vars, phonetic_vars, assess_vars,
                    server_vars, temp_vars >>

NextMap ==
    \/ /\ pc = "idle"
       /\ \E est \in ListsUpTo(Vocabulary, MaxEst), real \in ListsUpTo(Vocabulary, MaxRef) :
             MapWords(est, real)
    \/ Return

SpecMap == Init /\ [][NextMap]_vars

NextEval ==
    \/ /\ pc = "idle"
       /\ \E ref \in ListsUpTo(PhonemeItems, MaxRefPh),
             learner \in ListsUpTo(PhonemeItems, MaxLearnPh) :
             \E ts \in ListsUpTo(TimestampItems, Len(learner)) :
                 EvaluatePronunciationPhonemesAligned(ref, learner, ts)
    \/ /\ pc = "idle"
       /\ \E ref \in ListsUpTo(ReferenceTokens, MaxBuildRef),
             wt \in ListsUpTo(WordInfoItems, MaxBuildWords) :
             \E keys \in SUBSET { word_clean_of(wt[k].word) : k \in DOMAIN wt } :
                 \E al \in [ keys -> AlignmentChoices ], llm_feedback \in { <<>>, << "Well", " ", "done." >> } :
                     BuildComprehensiveResult(ref, wt, al, llm_feedback)
    \/ Return

SpecEval == Init /\ [][NextEval]_vars

\* requests in which the learner said the reference sentence without its
\* last word
MaxOmitRef == 3

NextOmitLast ==
    \/ /\ pc = "idle"
       /\ \E ref \in ListsUpTo(PhonemeItems, MaxOmitRef) \ { <<>> } :
             \E ts \in ListsUpTo(TimestampItems, Len(ref) - 1) :
                 EvaluatePronunciationPhonemesAligned(
                     ref, SubSeq(ref, 1, Len(ref) - 1), ts)
    \/ Return

SpecOmitLast == Init /\ [][NextOmitLast]_vars

NextPhonetic ==
    \/ /\ pc = "idle"
       /\ \E sentence \in ListsUpTo(PhonemeItems, MaxSentence),
             audio \in AudioClips, reply \in LlmReplies :
             ProcessPhoneticEvaluation(sentence, audio, reply)
    \/ Return

SpecPhonetic == Init /\ [][NextPhonetic]_vars

NextAssess ==
    \/ /\ pc = "idle"
       /\ \E recording \in Recordings,
             reference_words \in ListsUpTo(ReferenceTokens, MaxAssessRef),
             reply \in LlmReplies :
             EvaluatePronunciationAssessment(recording, reference_words, reply)
    \/ Return

SpecAssess == Init /\ [][NextAssess]_vars

MaxPhonemeSeq == 3

AlignPhonemes == { "K", "AE", "T" }

NextAlign ==
    \/ /\ pc = "idle"
       /\ \E ref \in ListsUpTo(AlignTokens, MaxAlignRef),
             learner \in ListsUpTo(AlignTokens, MaxAlignLearner) :
             AlignSequencesDtwPatched(ref, learner)
    \/ /\ pc = "idle"
       /\ \E reference \in ListsUpTo(AlignPhonemes, MaxPhonemeSeq),
             predicted \in ListsUpTo(AlignPhonemes, MaxPhonemeSeq) :
             AlignPhonemeSequences(reference, predicted)
    \/ Return

SpecAlign == Init /\ [][NextAlign]_vars

\* ------------------------------------------------------------------------
\* server.py: two clients post to /evaluate; the development server
\* handles each request in a thread of its own, so the steps of the two
\* handlers interleave.  The upload folder is shared.
\*   rpc[r]: "idle" | "received" | "saved" | "evaluated" | "exists" |
\*           "removed" (the handler is about to answer)
\* ------------------------------------------------------------------------
\* the request arrives with its form fields
Receive(r, filename, sentence) ==
    /\ UNCHANGED other_vars
    /\ rpc[r] = "idle"
    /\ rpc' = [ rpc EXCEPT ![r] = "received" ]
    /\ request_file' = [ request_file EXCEPT ![r] = filename ]
    /\ request_sentence' = [ request_sentence EXCEPT ![r] = sentence ]
    /\ UNCHANGED << uploads, transcribed_from, flask_response >>

\* lines 21-38: the checks, then file.save(filepath) with
\* filepath = uploads/<file name sent by the client>
SaveUpload(r) ==
    /\ UNCHANGED other_vars
    /\ rpc[r] = "received"
    /\ IF request_file[r] = ""
       THEN /\ rpc' = [ rpc EXCEPT ![r] = "removed" ]
            /\ flask_response' = [ flask_response EXCEPT ![r] =
                                     [ status |-> 400, body |-> "No selected file" ] ]
            /\ UNCHANGED uploads
       ELSE /\ rpc' = [ rpc EXCEPT ![r] = "saved" ]
            /\ uploads' = [ uploads EXCEPT ![request_file[r]] = r ]
            /\ UNCHANGED flask_response
    /\ UNCHANGED << request_file, request_sentence, transcribed_from >>

\* lines 41-45: evaluate_pronunciation_wer(filepath, sentence); Whisper
\* reads the file at filepath, and raises when there is none
Transcribe(r) ==
    /\ UNCHANGED other_vars
    /\ rpc[r] = "saved"
    /\ rpc' = [ rpc EXCEPT ![r] = "evaluated" ]
    /\ transcribed_from' = [ transcribed_from EXCEPT ![r] = uploads[request_file[r]] ]
    /\ flask_response' = [ flask_response EXCEPT ![r] =
          IF uploads[request_file[r]] = NoFile
          THEN [ status |-> 500, body |-> "No such file or directory" ]
          ELSE [ status |-> 200,
                 body |-> evaluate_pronunciation_wer(TranscriptOf(uploads[request_file[r]]),
                                                     request_sentence[r]) ] ]
    /\ UNCHANGED << request_file, request_sentence, uploads >>

\* line 48: os.path.exists(filepath)
CheckExists(r) ==
    /\ UNCHANGED other_vars
    /\ rpc[r] = "evaluated"
    /\ rpc' = [ rpc EXCEPT ![r] =
                  IF uploads[request_file[r]] # NoFile THEN "exists" ELSE "removed" ]
    /\ UNCHANGED << request_file, request_sentence, uploads, transcribed_from,
                    flask_response >>

\* line 49: os.remove(filepath); it raises inside the finally block when
\* the file has gone since line 48, and the request ends in HTTP 500
RemoveUpload(r) ==
    /\ UNCHANGED other_vars
    /\ rpc[r] = "exists"
    /\ rpc' = [ rpc EXCEPT ![r] = "removed" ]
    /\ IF uploads[request_file[r]] # NoFile
       THEN /\ uploads' = [ uploads EXCEPT ![request_file[r]] = NoFile ]
            /\ UNCHANGED flask_response
       ELSE /\ flask_response' = [ flask_response EXCEPT ![r] =
                                     [ status |-> 500, body |-> "Internal Server Error" ] ]
            /\ UNCHANGED uploads
    /\ UNCHANGED << request_file, request_sentence, transcribed_from >>

\* lines 45, 52: the answer is sent; the client may post again
Respond(r) ==
    /\ UNCHANGED other_vars
    /\ rpc[r] = "removed"
    /\ rpc' = [ rpc EXCEPT ![r] = "idle" ]
    /\ request_file' = [ request_file EXCEPT ![r] = "" ]
    /\ request_sentence' = [ request_sentence EXCEPT ![r] = <<>> ]
    /\ transcribed_from' = [ transcribed_from EXCEPT ![r] = NoFile ]
    /\ flask_response' = [ flask_response EXCEPT ![r] = [ status |-> 0, body |-> "" ] ]
    /\ UNCHANGED uploads

NextServer ==
    \/ \E r \in Requests :
          /\ rpc[r] = "idle"
          /\ \E filename \in Filenames \cup { "" },
                sentence \in ListsUpTo(ReferenceTokens, MaxServerSentence) :
                Receive(r, filename, sentence)
    \/ \E r \in Requests : SaveUpload(r)
    \/ \E r \in Requests : Transcribe(r)
    \/ \E r \in Requests : CheckExists(r)
    \/ \E r \in Requests : RemoveUpload(r)
    \/ \E r \in Requests : Respond(r)

SpecServer == Init /\ [][NextServer]_vars

\* ------------------------------------------------------------------------
\* The temporary files of evaluate_pronunciation_assessment.  A call goes
\* through the steps below; every step that can raise takes ok = FALSE
\* for the case that it does.  NamedTemporaryFile(delete=False) creates a
\* file under a name that is not in use; the file stays until os.unlink.
\*   apc: "idle" | "temp_created" | "temp_written" | "preprocessed" |
\*        "audio_created" | "transcribe" | "align" | "score" | "returned"
\* ------------------------------------------------------------------------
MaxTempNames == 3

TempNames == 1 .. MaxTempNames

\* the except branch of the call (lines 139-148): the error dictionary
ReturnError ==
    /\ apc' = "returned"
    /\ returned' = "error"

\* the finally branch of the call (lines 134-137)
UnlinkTempAudio == tmpdir' = tmpdir \ { temp_audio_path }

\* lines 156-159: b64decode, then the file of the preprocessing is created
CreateTempFile(ok) ==
    /\ apc = "idle"
    /\ IF ok
       THEN \E name \in TempNames \ tmpdir :
               /\ tmpdir' = tmpdir \cup { name }
               /\ temp_path' = name
               /\ apc' = "temp_created"
               /\ UNCHANGED returned
       ELSE /\ ReturnError
            /\ UNCHANGED << tmpdir, temp_path >>
    /\ UNCHANGED << temp_audio_path, call_vars, server_vars >>

\* lines 160-161: tmp_file.write(audio_bytes) inside the with block, before
\* the try of line 163; when it raises, the except of line 188 logs and
\* re-raises and the call returns the error dictionary
WriteTempFile(ok) ==
    /\ apc = "temp_created"
    /\ IF ok
       THEN /\ apc' = "temp_written"
            /\ UNCHANGED returned
       ELSE ReturnError
    /\ UNCHANGED << tmpdir, temp_path, temp_audio_path, call_vars, server_vars >>

\* lines 163-186: librosa.load, resampling and normalisation in a try whose
\* finally removes temp_path
LoadAudio(ok) ==
    /\ apc = "temp_written"
    /\ tmpdir' = tmpdir \ { temp_path }
    /\ IF ok
       THEN /\ apc' = "preprocessed"
            /\ UNCHANGED returned
       ELSE ReturnError
    /\ UNCHANGED << temp_path, temp_audio_path, call_vars, server_vars >>

\* line 90: the file for WhisperX is created
CreateTempAudioFile ==
    /\ apc = "preprocessed"
    /\ \E name \in TempNames \ tmpdir :
          /\ tmpdir' = tmpdir \cup { name }
          /\ temp_audio_path' = name
    /\ apc' = "audio_created"
    /\ UNCHANGED << temp_path, returned, call_vars, server_vars >>

\* lines 91-93: import soundfile and sf.write inside the with block, before
\* the try of line 95
WriteTempAudioFile(ok) ==
    /\ apc = "audio_created"
    /\ IF ok
       THEN /\ apc' = "transcribe"
            /\ UNCHANGED returned
       ELSE ReturnError
    /\ UNCHANGED << tmpdir, temp_path, temp_audio_path, call_vars, server_vars >>

\* lines 95-103: get_word_timestamps, inside the try
GetWordTimestamps(ok) ==
    /\ apc = "transcribe"
    /\ IF ok
       THEN /\ apc' = "align"
            /\ UNCHANGED << tmpdir, returned >>
       ELSE /\ UnlinkTempAudio
            /\ ReturnError
    /\ UNCHANGED << temp_path, temp_audio_path, call_vars, server_vars >>

\* lines 105-123: reference phonemes, phoneme prediction and
\* align_phonemes_to_words_v2, inside the try
PredictAndAlign(ok) ==
    /\ apc = "align"
    /\ IF ok
       THEN /\ apc' = "score"
            /\ UNCHANGED << tmpdir, returned >>
       ELSE /\ UnlinkTempAudio
            /\ ReturnError
    /\ UNCHANGED << temp_path, temp_audio_path, call_vars, server_vars >>

\* lines 125-137: _build_comprehensive_result and the return, then the
\* finally
ScoreAndReturn(ok) ==
    /\ apc = "score"
    /\ UnlinkTempAudio
    /\ IF ok
       THEN /\ apc' = "returned"
            /\ returned' = "result"
       ELSE ReturnError
    /\ UNCHANGED << temp_path, temp_audio_path, call_vars, server_vars >>

\* the next call starts; the files left in the directory stay there
NextAssessment ==
    /\ apc = "returned"
    /\ apc' = "idle"
    /\ temp_path' = NoFile
    /\ temp_audio_path' = NoFile
    /\ returned' = "none"
    /\ UNCHANGED << tmpdir, call_vars, server_vars >>

NextTemp ==
    \/ \E ok \in BOOLEAN : CreateTempFile(ok)
    \/ \E ok \in BOOLEAN : WriteTempFile(ok)
    \/ \E ok \in BOOLEAN : LoadAudio(ok)
    \/ CreateTempAudioFile
    \/ \E ok \in BOOLEAN : WriteTempAudioFile(ok)
    \/ \E ok \in BOOLEAN : GetWordTimestamps(ok)
    \/ \E ok \in BOOLEAN : PredictAndAlign(ok)
    \/ \E ok \in BOOLEAN : ScoreAndReturn(ok)
    \/ NextAssessment

SpecTemp == Init /\ [][NextTemp]_vars

\* ------------------------------------------------------------------------
\* Properties of the word mapper (checked under SpecMap)
\* ------------------------------------------------------------------------
NumRef == Len(words_real)
NumEst == Len(words_estimated)

\* the steps of the warping path that pair reference word j (0-based)
StepsOfRef(j) == { k \in DOMAIN dtw_path : dtw_path[k][2] = j }
InRangeStepsOfRef(j) == { k \in StepsOfRef(j) : dtw_path[k][1] < NumEst }

\* C1: in the index list returned by get_best_mapped_words_dtw no candidate
\* index other than -1 occurs at two distinct reference positions.
C1_MapperInjective ==
    pc = "mapped" =>
        \A j, k \in DOMAIN mapped_words_indices :
            (j # k /\ mapped_words_indices[j] # -1)
                => mapped_words_indices[j] # mapped_words_indices[k]

\* C1 witness: a call where one reference word had several path positions to
\* choose from and two reference words ended up mapped to candidates.
C1_Witness ==
    /\ pc = "mapped"
    /\ \E j \in 0 .. (NumRef - 1) :
          Cardinality(position_of_real_word_indices(MappedIndices(dtw_path), j)) > 1
    /\ \E j, k \in DOMAIN mapped_words_indices :
          j # k /\ mapped_words_indices[j] # -1 /\ mapped_words_indices[k] # -1

\* C2: the result for reference word j is decided by the path steps whose
\* referenceIndex is j: with exactly one such step, on an in-range candidate
\* i, word j is mapped to candidate i; and word j is reported unmatched only
\* when no step pairs it with an in-range candidate.
C2_PathStepsDecide ==
    pc = "mapped" =>
        \A j \in 0 .. (NumRef - 1) :
            /\ (Cardinality(StepsOfRef(j)) = 1 /\ InRangeStepsOfRef(j) # {})
                  => \E k \in StepsOfRef(j) : mapped_words_indices[j + 1] = dtw_path[k][1]
            /\ mapped_words_indices[j + 1] = -1 => InRangeStepsOfRef(j) = {}

\* C3: for every reference position, the mapped index is -1 if and only if
\* the mapped word is "-".
C3_UnmatchedIsDash ==
    pc = "mapped" =>
        \A j \in DOMAIN mapped_words_indices :
            mapped_words_indices[j] = -1 <=> mapped_words[j] = WORD_NOT_FOUND_TOKEN

\* C4: with an empty candidate list every reference word (any length >= 1 of
\* the reference list) is reported as ("-", -1).
C4_EmptyCandidatesAllUnmatched ==
    (pc = "mapped" /\ NumEst = 0 /\ NumRef >= 1) =>
        \A j \in DOMAIN mapped_words_indices :
            mapped_words[j] = WORD_NOT_FOUND_TOKEN /\ mapped_words_indices[j] = -1

\* the candidate list is the reference list followed by one extra word that
\* is no reference word
ReferencePlusExtraWord ==
    /\ NumRef >= 1
    /\ NumEst = NumRef + 1
    /\ SubSeq(words_estimated, 1, NumRef) = words_real
    /\ words_estimated[NumEst] \notin Range(words_real)

\* C5: when the candidate list is the reference list followed by one extra
\* word that is no reference word, reference j is mapped to candidate j (its
\* identical word) and the extra candidate's index is assigned nowhere.
C5_ExtraCandidateIgnored ==
    (pc = "mapped" /\ ReferencePlusExtraWord) =>
        \A j \in DOMAIN mapped_words_indices :
            /\ mapped_words_indices[j] = j - 1
            /\ mapped_words[j] = words_real[j]
            /\ mapped_words_indices[j] # NumEst - 1

\* ------------------------------------------------------------------------
\* Properties of the scoring (checked under SpecOmitLast and SpecEval)
\* ------------------------------------------------------------------------
\* the scoring loop ran (the mapper did not raise)
Scored == pc = "evaluated" /\ eval_outcome # "raised: get_best_mapped_words_dtw"

\* the candidate list is the reference list without its last word
OmittedLastWord ==
    /\ Scored
    /\ Len(reference_phonemes) >= 1
    /\ learner_phonemes = SubSeq(reference_phonemes, 1, Len(reference_phonemes) - 1)

\* C6: when the candidate list is the reference list with its last word
\* missing, the missing word maps to "-" with index -1 and accuracy 0.0, and
\* every other reference word k is mapped to candidate k (its identical
\* word) and scored from that candidate.
C6_OmittedLastWord ==
    OmittedLastWord =>
        LET last == Len(reference_phonemes)
        IN  /\ mapped_words[last] = WORD_NOT_FOUND_TOKEN
            /\ mapped_words_indices[last] = -1
            /\ word_scores[last].accuracy_percentage = 0
            /\ \A k \in 1 .. (last - 1) :
                  /\ mapped_words_indices[k] = k - 1
                  /\ mapped_words[k] = words_real[k]
                  /\ word_scores[k] = score_word_aligned(reference_phonemes[k], k - 1,
                                                         learner_phonemes,
                                                         learner_words_with_ts)

\* the candidate list equals the reference list, words and phonemes
IdenticalRequest ==
    /\ Scored
    /\ Len(reference_phonemes) >= 1
    /\ learner_phonemes = reference_phonemes

\* C7: when the reference and candidate lists are identical, with identical
\* phonemes, every word's accuracy_percentage is 100.0 and an overall score
\* of 100.0 is reported.
C7_IdenticalIsPerfect ==
    IdenticalRequest =>
        /\ \A k \in DOMAIN word_scores : word_scores[k].accuracy_percentage = 1000
        /\ eval_outcome = "returned"
        /\ scores.overall = 1000

\* the cleaned words of the transcription handed to _build_comprehensive_result
TranscribedWords ==
    { word_clean_of(words_with_times[k].word) : k \in DOMAIN words_with_times }

AllScoresZero(entry) ==
    /\ entry.accuracy_percentage = 0
    /\ entry.pronunciation_score = 0
    /\ entry.rhythm_score = 0

\* C8: the word_accuracy list has exactly one entry per reference word, in
\* reference order (entry k is for reference word k), for every
\* transcription, and the entry of a reference word without a candidate
\* counterpart has all its scores 0; for the list built by the scoring loop
\* of evaluate_pronunciation_phonemes_aligned and for the one returned by
\* _build_comprehensive_result.
C8_OneEntryPerReferenceWord ==
    /\ Scored =>
          /\ Len(word_scores) = Len(reference_phonemes)
          /\ \A k \in DOMAIN word_scores :
                /\ word_scores[k].word = reference_phonemes[k].word
                /\ mapped_words_indices[k] = -1 => AllScoresZero(word_scores[k])
    /\ pc = "built" =>
          /\ Len(result.word_accuracy) = Len(reference_text)
          /\ \A k \in DOMAIN result.word_accuracy :
                /\ result.word_accuracy[k].word = word_clean_of(reference_text[k])
                /\ word_clean_of(reference_text[k]) \notin TranscribedWords
                      => AllScoresZero(result.word_accuracy[k])

\* C8 witness: a built result for two reference words of which the first
\* was transcribed and scored and the second was not said.
C8_Witness ==
    /\ pc = "built"
    /\ Len(reference_text) = 2
    /\ Len(result.word_accuracy) = 2
    /\ word_clean_of(reference_text[1]) \in TranscribedWords
    /\ result.word_accuracy[1].accuracy_percentage > 0
    /\ word_clean_of(reference_text[2]) \notin TranscribedWords
    /\ AllScoresZero(result.word_accuracy[2])

InScoreRange(x) == 0 <= x /\ x <= 1000

\* C9: every score lies in [0,100]: each word's accuracy_percentage,
\* pronunciation_score and rhythm_score, and the aggregate pronunciation,
\* fluency, intonation, stress and overall, for every pair of phoneme
\* strings and every word timing.
C9_ScoresInRange ==
    /\ Scored =>
          /\ \A k \in DOMAIN word_scores :
                /\ InScoreRange(word_scores[k].accuracy_percentage)
                /\ InScoreRange(word_scores[k].pronunciation_score)
                /\ InScoreRange(word_scores[k].rhythm_score)
          /\ eval_outcome = "returned" =>
                /\ InScoreRange(scores.pronunciation)
                /\ InScoreRange(scores.fluency)
                /\ InScoreRange(scores.intonation)
                /\ InScoreRange(scores.stress)
                /\ InScoreRange(scores.overall)
    /\ pc = "built" =>
          /\ \A k \in DOMAIN result.word_accuracy :
                /\ InScoreRange(result.word_accuracy[k].accuracy_percentage)
                /\ InScoreRange(result.word_accuracy[k].pronunciation_score)
                /\ InScoreRange(result.word_accuracy[k].rhythm_score)
          /\ InScoreRange(result.scores.pronunciation)
          /\ InScoreRange(result.scores.fluency)
          /\ InScoreRange(result.scores.intonation)
          /\ InScoreRange(result.scores.stress)
          /\ InScoreRange(result.scores.overall)

\* C9 witness: a reference word with an empty phoneme string was mapped to
\* a candidate with a longer phoneme string and a timing, so that the
\* distance exceeds the reference length.
C9_Witness ==
    /\ Scored
    /\ \E k \in DOMAIN word_scores :
          /\ mapped_words_indices[k] >= 0
          /\ Len(strip_spaces(reference_phonemes[k].phoneme)) = 0
          /\ word_scores[k].dist > 0
          /\ word_scores[k].pronunciation_score = 0
          /\ word_scores[k].rhythm_score > 0

\* candidate index m has no timing: no entry at m, or one without start/end
NoTiming(m) ==
    \/ m >= Len(learner_words_with_ts)
    \/ "start" \notin DOMAIN learner_words_with_ts[m + 1]
    \/ "end" \notin DOMAIN learner_words_with_ts[m + 1]

\* C10: when a reference word is mapped to a candidate without timing, its
\* rhythm score is 0 and is left out of the weighting: the word's
\* accuracy_percentage equals its pronunciation score.
C10_NoTimingExcludesRhythm ==
    Scored =>
        \A k \in DOMAIN word_scores :
            (mapped_words_indices[k] >= 0 /\ NoTiming(mapped_words_indices[k])) =>
                /\ word_scores[k].rhythm_score = 0
                /\ word_scores[k].accuracy_percentage = word_scores[k].pronunciation_score

\* the transcriber produced no text for the request: the audio could not
\* be transcribed, or nothing was heard in it
NoTextTranscribed ==
    /\ pc = "responded"
    /\ \/ ~phonetic_request.audio.decodable
       \/ Len(phonetic_request.audio.speech) = 0

StepsRun == { steps_run[k] : k \in DOMAIN steps_run }

Assessed == pc = "assessed"

\* C12: once the transcription has succeeded, the evaluation ends with a
\* result that carries scores and no error: no later failure (no phonemes
\* predicted, a gap of the phonemizer, a feedback error) makes the request
\* fail as a whole.
C12_TranscribedAlwaysScored ==
    (Assessed /\ assessment_request.recording.decodable
              /\ assessment_request.recording.transcribable) =>
        /\ "error" \notin DOMAIN assessment_result
        /\ endpoint_response.status = 200

HasText(t) == \E k \in DOMAIN t : t[k] # " "

DefaultFeedback == << "AI feedback is currently unavailable." >>

WorkingReply == [ kind |-> "text", text |-> << "Well", " ", "done." >> ]

\* C13: every result returned without error carries a feedback that is not
\* empty; when the feedback service returns an empty or blank text, or
\* fails, the feedback is the default message; and the scores and the word
\* results are those obtained with a working feedback service.
C13_FeedbackSubstituted ==
    (Assessed /\ "error" \notin DOMAIN assessment_result) =>
        LET reply == assessment_request.reply
            working == evaluate_pronunciation_assessment(
                           assessment_request.recording,
                           assessment_request.reference_text, WorkingReply)
        IN  /\ HasText(assessment_result.feedback)
            /\ (reply.kind # "text" \/ ~HasText(reply.text)) =>
                   assessment_result.feedback = DefaultFeedback
            /\ assessment_result.scores = working.scores
            /\ assessment_result.words = working.words
            /\ assessment_result.word_accuracy = working.word_accuracy
            /\ assessment_result.word_errors = working.word_errors

\* C13 witness: the feedback service answered a blank text for a recording
\* with two words, and the result carries the default message.
C13_Witness ==
    /\ Assessed
    /\ "error" \notin DOMAIN assessment_result
    /\ assessment_request.reply.kind = "text"
    /\ ~HasText(assessment_request.reply.text)
    /\ Len(assessment_request.recording.words_with_times) = 2
    /\ assessment_result.feedback = DefaultFeedback

PatchedAligned == pc = "aligned" /\ aligner = "_align_sequences_dtw_patched"

\* the non-null reference values of an alignment, in order
RefsOf(alignment) ==
    LET kept == SelectSeq(alignment, LAMBDA item : item.ref # None)
    IN  [ k \in DOMAIN kept |-> kept[k].ref ]

\* C14: the alignment returned by _align_sequences_dtw_patched has exactly
\* len(ref_seq) entries with a non-null ref, and their refs, in order, are
\* ref_seq; either sequence may be empty.
C14_ReferencePreserved ==
    PatchedAligned => RefsOf(final_alignment) = ref_seq

\* C14 witness: an alignment with a match, an insertion and a deletion.
C14_Witness ==
    /\ PatchedAligned
    /\ \E k \in DOMAIN final_alignment : final_alignment[k].is_match
    /\ \E k \in DOMAIN final_alignment : final_alignment[k].ref = None
    /\ \E k \in DOMAIN final_alignment : final_alignment[k].learner = None

PhonemesAligned == pc = "aligned" /\ aligner = "align_phoneme_sequences"

\* C15: when exactly one of the two sequences given to
\* align_phoneme_sequences is empty, the alignment is neither empty nor an
\* error: it has one gap pair per element of the other sequence.
C15_OneEmptyGivesGaps ==
    (PhonemesAligned /\ (Len(ref_seq) = 0) # (Len(learner_seq) = 0)) =>
        /\ Len(final_alignment) = Len(ref_seq) + Len(learner_seq)
        /\ \A k \in DOMAIN final_alignment :
              final_alignment[k][1] = "-" \/ final_alignment[k][2] = "-"

\* C16: _align_sequences_dtw_patched never pairs a non-null ref with a
\* non-null learner token whose normalised edit distance (distance over
\* the longer length) exceeds 0.6.
C16_NoPairAboveThreshold ==
    PatchedAligned =>
        \A k \in DOMAIN final_alignment :
            (final_alignment[k].ref # None /\ final_alignment[k].learner # None) =>
                ~above_threshold(final_alignment[k].learner, final_alignment[k].ref)

\* the handler of request r has evaluated an upload
Evaluated(r) == request_file[r] # "" /\ rpc[r] \in { "evaluated", "exists", "removed" }

\* C17: two concurrent requests to /evaluate never read, overwrite or
\* delete each other's audio file: each handler transcribes the audio of
\* its own request and answers with the result for it.
C17_RequestsIndependent ==
    \A r \in Requests :
        Evaluated(r) =>
            /\ transcribed_from[r] = r
            /\ flask_response[r].status = 200

\* C18: the error list built by evaluate_pronunciation_phonemes_aligned
\* has a record of category deletion for every reference word that was
\* mapped to no candidate.
C18_DeletionRecorded ==
    Scored =>
        \A k \in DOMAIN reference_phonemes :
            mapped_words_indices[k] = -1 =>
                \E e \in DOMAIN phoneme_errors : phoneme_errors[e].type = "deletion"

\* C19: with an empty reference sentence the evaluation refuses to
\* proceed: it gives a failure signal and no scores.
C19_EmptyReferenceRefused ==
    (Assessed /\ Len(assessment_request.reference_text) = 0) =>
        /\ "error" \in DOMAIN assessment_result
        /\ endpoint_response.status # 200

\* the grade band of a reported score (in tenths of a point)
GradeBand(overall) ==
    IF overall >= 900 THEN "Excellent"
    ELSE IF overall >= 800 THEN "Good"
    ELSE IF overall >= 700 THEN "Fair"
    ELSE "Needs Improvement"

\* C20: the grade of a result is determined by the overall score reported
\* in the same result: "Excellent" from 90, "Good" from 80 and below 90,
\* "Fair" from 70 and below 80, "Needs Improvement" below 70.
C20_GradeMatchesOverall ==
    (Assessed /\ "error" \notin DOMAIN assessment_result) =>
        assessment_result.scores.grade = GradeBand(assessment_result.scores.overall)

\* ------------------------------------------------------------------------
\* Properties of the mapper, the aligners and the assessment (C21 - C30)
\* ------------------------------------------------------------------------
MapperCalled == pc \in {"mapped", "raised"}

\* C21: for every candidate list and every reference list, the empty
\* reference list included, get_best_mapped_words_dtw returns without
\* error two lists, the mapped words and the mapped indices, each with
\* exactly one entry per reference word (two empty lists for an empty
\* reference list).
C21_OneEntryPerReferenceWord ==
    MapperCalled =>
        /\ pc = "mapped"
        /\ Len(mapped_words) = NumRef
        /\ Len(mapped_words_indices) = NumRef

\* the score of one aligned pair: +2 for a match, -1 for a mismatch and
\* -1 for a gap on either side
PairScore(entry) ==
    IF entry[1] = "-" \/ entry[2] = "-" THEN -1
    ELSE IF entry[1] = entry[2] THEN 2 ELSE -1

AlignmentScore(alignment) ==
    SumSeq([ k \in DOMAIN alignment |-> PairScore(alignment[k]) ])

\* the highest score any alignment of ref[1..i] with pred[1..j] can have
RECURSIVE BestScore(_, _, _, _)
BestScore(ref, pred, i, j) ==
    IF i = 0 THEN -j
    ELSE IF j = 0 THEN -i
    ELSE Max2(BestScore(ref, pred, i - 1, j - 1)
                 + (IF ref[i] = pred[j] THEN 2 ELSE -1),
              Max2(BestScore(ref, pred, i - 1, j) - 1,
                   BestScore(ref, pred, i, j - 1) - 1))

BothNonEmpty == Len(ref_seq) > 0 /\ Len(learner_seq) > 0

\* C22: for non-empty sequences the alignment returned by
\* align_phoneme_sequences is optimal under match +2, mismatch -1,
\* gap -1: no alignment of the two sequences has a higher total score.
C22_AlignmentIsOptimal ==
    (PhonemesAligned /\ BothNonEmpty) =>
        AlignmentScore(final_alignment)
            = BestScore(ref_seq, learner_seq, Len(ref_seq), Len(learner_seq))

\* the phoneme string without its spaces, as a sequence of characters
CharsOf(phoneme) == SelectSeq(phoneme, LAMBDA c : c # " ")

\* max(0, (len(refSeq) - editDistance(refSeq, candSeq)) / max(len(refSeq), 1))
\* times 100, in 1/10000 point
FormulaScore_e4(refSeq, candSeq) ==
    Max2(0, ((Len(refSeq) - edit_distance_python(refSeq, candSeq)) * 1000000)
               \div Max2(Len(refSeq), 1))

\* C23: the pronunciation_score of a reference word mapped to a candidate
\* is max(0, (len(refSeq) - editDistance(refSeq, candSeq))
\* / max(len(refSeq), 1)) * 100, where refSeq and candSeq are the two
\* phoneme strings without spaces, compared character by character; the
\* pronunciation_score of a reference word mapped to no candidate is 0.
C23_PronunciationScoreFormula ==
    Scored =>
        \A k \in DOMAIN word_scores :
            word_scores[k].pronunciation_score =
                IF mapped_words_indices[k] >= 0
                THEN Round1(FormulaScore_e4(
                         CharsOf(reference_phonemes[k].phoneme),
                         CharsOf(learner_phonemes[mapped_words_indices[k] + 1].phoneme)))
                ELSE 0

\* C23 witness: a reference word whose phoneme string has a space was
\* mapped to a candidate one character short of it (score 50), and
\* another reference word was mapped to no candidate.
C23_Witness ==
    /\ Scored
    /\ \E k \in DOMAIN word_scores :
          /\ mapped_words_indices[k] >= 0
          /\ Len(CharsOf(reference_phonemes[k].phoneme)) < Len(reference_phonemes[k].phoneme)
          /\ word_scores[k].dist = 1
          /\ word_scores[k].pronunciation_score = 500
    /\ \E k \in DOMAIN word_scores :
          /\ mapped_words_indices[k] = -1
          /\ word_scores[k].pronunciation_score = 0

\* the characters of a token of an alignment item (none for a null token)
TokenChars(token) == IF token = None THEN {} ELSE Range(token)

\* the characters on the ref side and on the learner side of a
\* sub-alignment
SubRefChars(sub_alignment) ==
    { sub_alignment[k].ref[1] :
        k \in { l \in DOMAIN sub_alignment : sub_alignment[l].ref # None } }

SubLearnerChars(sub_alignment) ==
    { sub_alignment[k].learner[1] :
        k \in { l \in DOMAIN sub_alignment : sub_alignment[l].learner # None } }

\* sub_alignment aligns the characters of the two tokens of item: both
\* sides carry exactly the characters of their token, and an entry is a
\* match exactly when its two characters are equal
AlignsCharsOf(item) ==
    /\ SubRefChars(item.sub_alignment) = TokenChars(item.ref)
    /\ SubLearnerChars(item.sub_alignment) = TokenChars(item.learner)
    /\ \A k \in DOMAIN item.sub_alignment :
          item.sub_alignment[k].is_match
              <=> item.sub_alignment[k].ref = item.sub_alignment[k].learner

\* C24: an item built by _build_alignment_item with is_match true has an
\* empty sub_alignment; an item that is not a match (a mismatched pair,
\* an insertion or a deletion) and has at least one non-empty token has a
\* non-empty sub_alignment, which aligns the characters of its two tokens.
C24_SubAlignmentOnlyForMismatches ==
    PatchedAligned =>
        \A k \in DOMAIN final_alignment :
            LET item == final_alignment[k]
            IN  /\ item.is_match => item.sub_alignment = <<>>
                /\ (~item.is_match
                    /\ TokenChars(item.ref) \cup TokenChars(item.learner) # {}) =>
                       /\ item.sub_alignment # <<>>
                       /\ AlignsCharsOf(item)

\* C24 witness: an alignment with a match, a mismatched pair whose
\* characters partly agree, and a deletion.
C24_Witness ==
    /\ PatchedAligned
    /\ \E k \in DOMAIN final_alignment : final_alignment[k].is_match
    /\ \E k \in DOMAIN final_alignment :
          /\ final_alignment[k].ref # None
          /\ final_alignment[k].learner # None
          /\ ~final_alignment[k].is_match
          /\ \E c \in DOMAIN final_alignment[k].sub_alignment :
                final_alignment[k].sub_alignment[c].is_match
    /\ \E k \in DOMAIN final_alignment :
          /\ final_alignment[k].learner = None
          /\ Len(final_alignment[k].sub_alignment) > 0

\* the reference positions (1-based) that were mapped to a candidate
MappedRefs == { j \in DOMAIN mapped_words_indices : mapped_words_indices[j] # -1 }

\* C25: the mapping returned by get_best_mapped_words_dtw is monotonic:
\* each reference word is mapped to at most one candidate, and of two
\* mapped reference positions j < k the candidate index of j is strictly
\* smaller than the candidate index of k.
C25_MappingMonotonic ==
    pc = "mapped" =>
        /\ Len(mapped_words_indices) = NumRef
        /\ \A j \in MappedRefs, k \in MappedRefs :
              j < k => mapped_words_indices[j] < mapped_words_indices[k]

\* C25 witness: three reference words were mapped, one of them chosen
\* among several path positions.
C25_Witness ==
    /\ pc = "mapped"
    /\ Cardinality(MappedRefs) = 3
    /\ \E j \in MappedRefs :
          Cardinality(position_of_real_word_indices(MappedIndices(dtw_path), j - 1)) > 1

\* the cleaned upper-case texts of the transcribed words
CleanedTranscribed == { word_clean_of(words_with_times[k].word) : k \in DOMAIN words_with_times }

\* the entries of word_errors for reference position i (0-based)
ErrorsAt(i) == { e \in DOMAIN result.word_errors : result.word_errors[e].position = i }

\* C26: in the result of _build_comprehensive_result, word_errors has a
\* deletion entry at reference position i exactly when the cleaned
\* upper-case text of reference word i is that of no transcribed word;
\* every reference position has at most one error entry, so there are at
\* most as many error entries as reference words and wer_score is at
\* most 100.
C26_DeletionIffNotTranscribed ==
    pc = "built" =>
        /\ \A i \in DOMAIN reference_text :
              /\ (\E e \in ErrorsAt(i - 1) : result.word_errors[e].error_type = "deletion")
                    <=> word_clean_of(reference_text[i]) \notin CleanedTranscribed
              /\ Cardinality(ErrorsAt(i - 1)) <= 1
        /\ \A e \in DOMAIN result.word_errors :
              result.word_errors[e].position \in 0 .. (Len(reference_text) - 1)
        /\ Len(result.word_errors) <= Len(reference_text)
        /\ result.wer_score <= 1000

\* C26 witness: two reference words, one not transcribed (a deletion) and
\* one transcribed from time 0 and poorly scored (a mispronunciation):
\* every reference word has an error entry and wer_score is 100.
C26_Witness ==
    /\ pc = "built"
    /\ Len(reference_text) = 2
    /\ \E e \in DOMAIN result.word_errors : result.word_errors[e].error_type = "deletion"
    /\ \E e \in DOMAIN result.word_errors :
          /\ result.word_errors[e].error_type = "mispronunciation"
          /\ result.words[result.word_errors[e].position + 1].start = 0
    /\ result.wer_score = 1000

\* one side of an alignment (1: reference, 2: predicted) without its gaps
SideWithoutGaps(alignment, side) ==
    LET kept == SelectSeq(alignment, LAMBDA entry : entry[side] # "-")
    IN  [ k \in DOMAIN kept |-> kept[k][side] ]

\* C27: for non-empty sequences without the token "-", the alignment of
\* align_phoneme_sequences preserves both inputs: its reference side
\* without the gaps is the reference, its predicted side without the gaps
\* is the predicted sequence, no entry has a gap on both sides, and the
\* correct flag of an entry is true exactly when its two sides are equal.
C27_BothInputsPreserved ==
    (PhonemesAligned /\ BothNonEmpty) =>
        /\ SideWithoutGaps(final_alignment, 1) = ref_seq
        /\ SideWithoutGaps(final_alignment, 2) = learner_seq
        /\ \A k \in DOMAIN final_alignment :
              /\ ~(final_alignment[k][1] = "-" /\ final_alignment[k][2] = "-")
              /\ final_alignment[k][3] <=> final_alignment[k][1] = final_alignment[k][2]

\* C27 witness: an alignment with a correct pair, a gap on the reference
\* side and a gap on the predicted side.
C27_Witness ==
    /\ PhonemesAligned
    /\ BothNonEmpty
    /\ \E k \in DOMAIN final_alignment : final_alignment[k][3]
    /\ \E k \in DOMAIN final_alignment : final_alignment[k][1] = "-"
    /\ \E k \in DOMAIN final_alignment : final_alignment[k][2] = "-"

\* the Levenshtein distance of a[1..i] and b[1..j]: the least number of
\* insertions, deletions and replacements turning one into the other
RECURSIVE Levenshtein(_, _, _, _)
Levenshtein(a, b, i, j) ==
    IF i = 0 THEN j
    ELSE IF j = 0 THEN i
    ELSE Min2(Levenshtein(a, b, i - 1, j - 1) + (IF a[i] = b[j] THEN 0 ELSE 1),
              Min2(Levenshtein(a, b, i - 1, j) + 1, Levenshtein(a, b, i, j - 1) + 1))

\* the entries of an alignment whose correct flag is false
Incorrect(alignment) == { k \in DOMAIN alignment : ~alignment[k][3] }

\* C28: for non-empty sequences, the number of entries of the alignment of
\* align_phoneme_sequences whose correct flag is false is the Levenshtein
\* distance between the reference and the predicted sequence.
C28_ErrorsAreLevenshtein ==
    (PhonemesAligned /\ BothNonEmpty) =>
        Cardinality(Incorrect(final_alignment))
            = Levenshtein(ref_seq, learner_seq, Len(ref_seq), Len(learner_seq))

\* C28 witness: two sequences of different lengths at distance 2, aligned
\* with a replacement and a gap.
C28_Witness ==
    /\ PhonemesAligned
    /\ BothNonEmpty
    /\ Len(ref_seq) # Len(learner_seq)
    /\ Cardinality(Incorrect(final_alignment)) = 2
    /\ \E k \in Incorrect(final_alignment) :
          final_alignment[k][1] # "-" /\ final_alignment[k][2] # "-"
    /\ \E k \in Incorrect(final_alignment) :
          final_alignment[k][1] = "-" \/ final_alignment[k][2] = "-"

\* the temporary files the current call created
CreatedByCall == { temp_path, temp_audio_path } \ { NoFile }

\* C29: every temporary audio file created while serving
\* evaluate_pronunciation_assessment (the one of
\* _preprocess_audio_from_base64 and the one written for WhisperX) has
\* been deleted by the time the call returns, on the success path and
\* when any step after the file's creation fails (writing the file,
\* loading, transcription, alignment, scoring).
C29_TempFilesDeleted ==
    apc = "returned" => CreatedByCall \cap tmpdir = {}

\* C30: every index returned by get_best_mapped_words_dtw is -1 or a
\* position of the candidate list, 0 <= index < len(candidateWords),
\* never the blank row; where the index of reference word j is not -1,
\* the mapped word of j is the candidate word at that index.
C30_IndicesAreCandidatePositions ==
    pc = "mapped" =>
        \A j \in DOMAIN mapped_words_indices :
            \/ mapped_words_indices[j] = -1
            \/ /\ mapped_words_indices[j] \in 0 .. (NumEst - 1)
               /\ mapped_words[j] = words_estimated[mapped_words_indices[j] + 1]

\* the single path position of reference word j (1-based) lies on the
\* blank row or beyond
OnlyPositionOutOfRange(j) ==
    LET positions == position_of_real_word_indices(MappedIndices(dtw_path), j - 1)
    IN  /\ Cardinality(positions) = 1
        /\ \A k \in positions : k >= NumEst

\* C30 witness: one reference word was mapped to a candidate, and another
\* one, whose only path position is not a candidate position, got -1.
C30_Witness ==
    /\ pc = "mapped"
    /\ \E j \in DOMAIN mapped_words_indices : mapped_words_indices[j] >= 0
    /\ \E j \in DOMAIN mapped_words_indices :
          /\ OnlyPositionOutOfRange(j)
          /\ mapped_words_indices[j] = -1

====
